---- MODULE Spec2Model ----
(***************************************************************************)
(* A model of the authentication flow of the repository: the credential   *)
(* store, password hashing, token issuing and decoding, login and the      *)
(* protected-route gate of crm_13_implementation.py, and the login         *)
(* endpoint of crm_10_implementation.py; and of the tic-tac-toe game of    *)
(* crm_4_implementation.py: MinimaxAI, GameEngine and the click handler of *)
(* TicTacToeUI; of the GameLogicController of crm_8_implementation.py; and *)
(* of the two games of crm_5_implementation.py, the TicTacToe of its first *)
(* part (lines 1-565) and the GameEngine of its second part (from line     *)
(* 566), each read as the module of its own it is written as.              *)
(*                                                                         *)
(* Python values are modelled as follows.  A dict is a function whose      *)
(* DOMAIN is its key set.  An exception is a record with a "raised" field. *)
(* Time is a clock `now` counted in ticks, TicksPerSecond ticks to the     *)
(* second, so that the whole-second "exp" claim of a token and the         *)
(* sub-second clock of the decoder are distinct quantities.                *)
(***************************************************************************)
EXTENDS Integers, Sequences, FiniteSets, TLC

\* ------------------------------------------------------------------ bounds

\* The clock runs from 0 to MaxNow ticks.
MaxNow == 2

\* Clock resolution: ticks per second.
TicksPerSecond == 2

\* ------------------------------------------------------ input domains

Usernames == {"alice", "bob"}

Passwords == {"s3cr3t1", "s3cr3t2"}

\* The salts bcrypt.gensalt() may return.
Salts == {"saltA", "saltB"}

\* The identifiers uuid4() may return.
Uuids == {"uuid"}

\* ------------------------------------------------------------ Python dicts

EmptyDict == <<>>

DictGet(d, k, default) == IF k \in DOMAIN d THEN d[k] ELSE default

DictSet(d, k, v) == [x \in DOMAIN d \cup {k} |-> IF x = k THEN v ELSE d[x]]

\* Python's None for a string-valued lookup.
None == "None"

\* Truthiness of an optional string: None and "" are falsy.
Truthy(s) == s # None /\ s # ""

\* ------------------------------------------------------------------ bcrypt

\* bcrypt.hashpw(password, salt): the hash string embeds the scheme and the salt.
hashpw(password, salt) == [scheme |-> "2b", salt |-> salt, digest |-> <<salt, password>>]

\* bcrypt.checkpw(password, hashed): re-hash with the embedded salt and compare;
\* a hash string of another scheme raises ValueError("Invalid salt").
checkpw_raises(hashed) == hashed.scheme # "2b"

checkpw(password, hashed) == hashpw(password, hashed.salt) = hashed

\* A password itself where a hash string is expected: a string with no
\* scheme prefix and no salt, whose content is the password.
plaintext(password) == [scheme |-> "", salt |-> "", digest |-> <<password>>]

\* --------------------------------------------------------------- the state

VARIABLES
    users,      \* crm_13: the `users` dict of the UserRepository the callers share
    injected,   \* crm_13: TRUE when get_user_repository hands out that shared repository
    users_db,   \* crm_10: the module-level users_db dict
    now,        \* the clock, in ticks
    client,     \* the token most recently handed to the client, with how it was issued
    last,       \* the outcome of the most recent call
    frames,     \* crm_13: the frames of the concurrently running create_user calls
    board,        \* crm_4: GameEngine.board
    current_turn, \* crm_4: GameEngine.current_turn
    status,       \* crm_4: GameEngine.status
    has_ai,       \* crm_4: TRUE when TicTacToeUI.ai is a strategy, FALSE when it is None
    pending,      \* crm_4: the _trigger_ai callbacks scheduled with after() and not yet run
    game_last,    \* crm_4: the outcome of the most recent call on the engine or the UI
    ai_board,     \* crm_4: the board of a game played against MinimaxAI.get_move
    controller,      \* crm_8: the GameLogicController (board, current_player, status, scores)
    controller_last, \* crm_8: the outcome of the most recent call on the controller
    controller_rounds, \* crm_8: the line-completing moves so far, the total score at the last reset
    tictactoe,       \* crm_5: the TicTacToe game of the first part of the file
    tictactoe_last,  \* crm_5: the outcome of the most recent call on the TicTacToe
    game_engine,     \* crm_5: the GameEngine of the second part of the file
    game_engine_last, \* crm_5: the outcome of the most recent call on that GameEngine
    request          \* crm_13: the get_current_user call in progress and its position

\* The state of the authentication modules, and that of the game of crm_4.
auth_vars == <<users, injected, users_db, now, client, last, frames>>

crm4_vars == <<board, current_turn, status, has_ai, pending, game_last, ai_board>>

crm8_vars == <<controller, controller_last, controller_rounds>>

\* The variables of the games other than that of crm_4.
crm5_vars == <<tictactoe, tictactoe_last, game_engine, game_engine_last>>

more_vars == <<crm8_vars, crm5_vars, request>>

vars == <<auth_vars, crm4_vars, more_vars>>

\* ------------------------------------------- crm_13: UserRepository

\* UserRepository.get_user_by_username: self.users.get(username), as "found or not".
get_user_by_username(store, username) == username \in DOMAIN store

\* Only the presence of the two keys tested: an empty string passes.
create_user_invalid_keys_only(user_data) ==
    \/ "username" \notin DOMAIN user_data
    \/ "password" \notin DOMAIN user_data

\* create_user, line 49: a missing or empty username or password.
create_user_invalid(user_data) ==
    \/ ~Truthy(DictGet(user_data, "username", None))
    \/ ~Truthy(DictGet(user_data, "password", None))

\* The duplicate check left out: every username passes as new.
create_user_exists_unchecked(store, user_data) == FALSE

\* create_user, line 52: the duplicate check.
create_user_exists(store, user_data) == get_user_by_username(store, user_data["username"])

\* bcrypt.hashpw left out: the password stored as it was given.
create_user_record_unhashed(user_data, salt, id, t) ==
    DictSet(DictSet(DictSet(user_data,
        "password", plaintext(user_data["password"])),
        "id", id),
        "created_at", t)

\* create_user, lines 56-63: the dict as it is stored and returned.
create_user_record(user_data, salt, id, t) ==
    DictSet(DictSet(DictSet(user_data,
        "password", hashpw(user_data["password"], salt)),
        "id", id),
        "created_at", t)

\* create_user, line 65: self.users[user_data["username"]] = user_data.
create_user_insert(store, record) == DictSet(store, record["username"], record)

\* The user_data dicts a caller may pass: each key absent, empty or set.
UserDataInputs ==
    { [k \in ks |-> IF k = "username" THEN u ELSE p] :
        ks \in SUBSET {"username", "password"},
        u \in Usernames \cup {""}, p \in Passwords \cup {""} }

\* UserRepository.create_user on the shared repository, as one sequential call.
create_user(user_data) ==
    /\ \E salt \in Salts, id \in Uuids :
        IF create_user_invalid(user_data)
        THEN /\ last' = [op |-> "create_user", user_data |-> user_data,
                         raised |-> "ValueError",
                         message |-> "Username and password are required"]
             /\ UNCHANGED users
        ELSE IF create_user_exists(users, user_data)
        THEN /\ last' = [op |-> "create_user", user_data |-> user_data,
                         raised |-> "ValueError",
                         message |-> "Username already exists"]
             /\ UNCHANGED users
        ELSE LET record == create_user_record(user_data, salt, id, now) IN
             /\ users' = create_user_insert(users, record)
             /\ last' = [op |-> "create_user", user_data |-> user_data,
                         raised |-> "none", result |-> record]
    /\ UNCHANGED <<injected, users_db, now, client, frames, crm4_vars, more_vars>>

\* --------------------------------------------------------------------- jwt

\* datetime.timedelta(minutes=m), in ticks.
timedelta_minutes(m) == m * 60 * TicksPerSecond

\* The signing keys: crm_13 signs with the literal "SECRET_KEY", crm_10 with
\* SECRET_KEY = os.getenv("SECRET_KEY", "your-secret-key-here").
SECRET_KEY_13 == "SECRET_KEY"

SECRET_KEY_10 == "your-secret-key-here"

\* An HMAC that covers the header only.
Sign_header_only(header, payload, key) == [signed |-> <<header>>, key |-> key]

\* The HMAC of a header and a payload under a key.
Sign(header, payload, key) == [signed |-> <<header, payload>>, key |-> key]

\* jwt.encode(payload, key, algorithm): a datetime "exp" (here in ticks) is
\* written as whole seconds since the epoch, the fraction dropped.  The
\* signature is written in base64url: the 32 bytes of an HS256 signature take
\* 43 characters, the last of which carries 4 bits of the signature and 2
\* spare bits, written as zero.
jwt_encode(payload, key, algorithm) ==
    LET header == [alg |-> algorithm, typ |-> "JWT"]
        claims == [k \in DOMAIN payload |->
                     IF k = "exp" THEN payload[k] \div TicksPerSecond ELSE payload[k]]
    IN  [parsable |-> TRUE, header |-> header, payload |-> claims,
         signature |-> Sign(header, claims, key), spare |-> 0]

\* The claims read before the signature is verified: an expiry in the past is
\* reported whatever the signature.
jwt_decode_claims_first(token, key, algorithms, require_exp, t) ==
    IF ~token.parsable
    THEN [raised |-> "DecodeError"]
    ELSE IF "exp" \in DOMAIN token.payload /\ token.payload["exp"] * TicksPerSecond <= t
    THEN [raised |-> "ExpiredSignatureError"]
    ELSE IF token.header.alg \notin algorithms
    THEN [raised |-> "InvalidAlgorithmError"]
    ELSE IF token.signature # Sign(token.header, token.payload, key)
    THEN [raised |-> "InvalidSignatureError"]
    ELSE IF require_exp /\ "exp" \notin DOMAIN token.payload
    THEN [raised |-> "MissingRequiredClaimError"]
    ELSE [raised |-> "none", payload |-> token.payload]

\* jwt.decode(token, key, algorithms, options) at clock t: structure, then
\* algorithm, then signature, and only then the claims; a token is expired
\* when exp <= now.  The signature segment is read by base64.urlsafe_b64decode,
\* which drops the spare bits of its last character whatever they are.
jwt_decode(token, key, algorithms, require_exp, t) ==
    IF ~token.parsable
    THEN [raised |-> "DecodeError"]
    ELSE IF token.header.alg \notin algorithms
    THEN [raised |-> "InvalidAlgorithmError"]
    ELSE IF token.signature # Sign(token.header, token.payload, key)
    THEN [raised |-> "InvalidSignatureError"]
    ELSE IF require_exp /\ "exp" \notin DOMAIN token.payload
    THEN [raised |-> "MissingRequiredClaimError"]
    ELSE IF "exp" \in DOMAIN token.payload /\ token.payload["exp"] * TicksPerSecond <= t
    THEN [raised |-> "ExpiredSignatureError"]
    ELSE [raised |-> "none", payload |-> token.payload]

\* The subclasses of jwt.InvalidTokenError other than ExpiredSignatureError.
InvalidTokenErrors ==
    {"DecodeError", "InvalidAlgorithmError", "InvalidSignatureError",
     "MissingRequiredClaimError"}

\* The update applied to the caller's dict itself, data.copy() left out.
create_access_token_no_copy(data, expires_delta, t) ==
    LET expire == t + expires_delta
        to_encode == DictSet(data, "exp", expire)
    IN  [token |-> jwt_encode(to_encode, SECRET_KEY_13, "HS256"), data |-> to_encode]

\* crm_13 create_access_token(data, expires_delta) at clock t: the token and
\* the caller's dict as the call leaves it.
create_access_token(data, expires_delta, t) ==
    LET expire == t + expires_delta
        to_encode == DictSet(data, "exp", expire)
    IN  [token |-> jwt_encode(to_encode, SECRET_KEY_13, "HS256"), data |-> data]

\* ------------------------------------------------- crm_13: the API layer

\* get_user_repository(): a UserRepository constructed on the spot, whose users
\* dict is empty; when injected, the repository the callers share.
get_user_repository == IF injected THEN users ELSE EmptyDict

HTTP_401_UNAUTHORIZED == 401

HTTP_500_INTERNAL_SERVER_ERROR == 500

\* authenticate_user(username, password) against the repository `repo`.
authenticate_user(repo, username, password) ==
    IF ~get_user_by_username(repo, username)
    THEN [raised |-> "HTTPException", status_code |-> HTTP_401_UNAUTHORIZED,
          detail |-> "Invalid credentials"]
    ELSE IF checkpw_raises(repo[username]["password"])
    THEN [raised |-> "ValueError"]
    ELSE IF ~checkpw(password, repo[username]["password"])
    THEN [raised |-> "HTTPException", status_code |-> HTTP_401_UNAUTHORIZED,
          detail |-> "Invalid credentials"]
    ELSE [raised |-> "none", result |-> repo[username]]

\* login: the token's time-to-live in minutes, and the expires_in it reports.
LOGIN_EXPIRES_MINUTES == 15

LOGIN_EXPIRES_IN == 15

\* login(user_data) against `repo` at clock t: the HTTP response.
login_response(repo, username, password, t) ==
    LET a == authenticate_user(repo, username, password) IN
    IF a.raised = "HTTPException"
    THEN [status_code |-> a.status_code, detail |-> a.detail]
    ELSE IF a.raised # "none"
    THEN [status_code |-> HTTP_500_INTERNAL_SERVER_ERROR,
          detail |-> "Internal server error"]
    ELSE LET issue == create_access_token([sub |-> a.result["username"]],
                          timedelta_minutes(LOGIN_EXPIRES_MINUTES), t)
         IN  [status_code |-> 200,
              body |-> [token |-> issue.token, username |-> a.result["username"],
                        expires_in |-> LOGIN_EXPIRES_IN]]

\* get_current_user(token) against `repo` at clock t.  AuthException is no
\* jwt.InvalidTokenError, so neither except clause catches it.  looked_up is
\* the set of usernames the repository was asked for.
get_current_user(repo, token, t) ==
    LET d == jwt_decode(token, SECRET_KEY_13, {"HS256"}, TRUE, t) IN
    IF d.raised = "ExpiredSignatureError"
    THEN [raised |-> "HTTPException", status_code |-> HTTP_401_UNAUTHORIZED,
          detail |-> "Token expired", looked_up |-> {}]
    ELSE IF d.raised \in InvalidTokenErrors
    THEN [raised |-> "HTTPException", status_code |-> HTTP_401_UNAUTHORIZED,
          detail |-> "Invalid token", looked_up |-> {}]
    ELSE LET username == DictGet(d.payload, "sub", None) IN
         IF ~Truthy(username)
         THEN [raised |-> "AuthException", message |-> "Invalid token",
               looked_up |-> {}]
         ELSE IF ~get_user_by_username(repo, username)
         THEN [raised |-> "AuthException", message |-> "User not found",
               looked_up |-> {username}]
         ELSE [raised |-> "none", result |-> repo[username],
               looked_up |-> {username}]

\* GET /protected: the HTTP response for the outcome of its dependency; an
\* exception that is no HTTPException leaves the framework as a 500.
protected_response(outcome) ==
    IF outcome.raised = "none"
    THEN [status_code |-> 200, body |-> outcome.result]
    ELSE IF outcome.raised = "HTTPException"
    THEN [status_code |-> outcome.status_code, detail |-> outcome.detail]
    ELSE [status_code |-> HTTP_500_INTERNAL_SERVER_ERROR,
          detail |-> "Internal Server Error"]

\* ------------------------------------------------------------------ crm_10

\* An Optional value is a sequence: <<>> for None, <<v>> for v.

ACCESS_TOKEN_EXPIRE_MINUTES == 30

DEFAULT_EXPIRE_MINUTES == 15

\* The module-level users_db as the module builds it, each password hashed
\* under a salt of its own.
InitialUsersDb(salt1, salt2) ==
    [u \in {"user1", "user2"} |->
        [username |-> u,
         hashed_password |-> IF u = "user1" THEN hashpw("password1", salt1)
                                           ELSE hashpw("password2", salt2)]]

\* str.lower() on the usernames the model uses.
Lower(username) == IF username = "USER1" THEN "user1" ELSE username

\* A lookup that folds the case of the username before it reads the dict.
get_user_by_username_10_caseless(db, username) ==
    IF Lower(username) \in DOMAIN db THEN <<db[Lower(username)]>> ELSE <<>>

\* UserRepository.get_user_by_username(username) of crm_10 against `db`:
\* users_db.get(username), an Optional.
get_user_by_username_10(db, username) ==
    IF username \in DOMAIN db THEN <<db[username]>> ELSE <<>>

\* A lookup by users_db[username] instead of users_db.get(username): an unknown
\* username raises KeyError.
authenticate_user_10_subscript(db, username, password) ==
    IF username \notin DOMAIN db
    THEN [raised |-> "KeyError"]
    ELSE IF ~checkpw(password, db[username]["hashed_password"])
    THEN [raised |-> "none", result |-> <<>>]
    ELSE [raised |-> "none", result |-> <<db[username]>>]

\* UserRepository.authenticate_user(username, password) of crm_10 against `db`.
authenticate_user_10(db, username, password) ==
    IF username \notin DOMAIN db
    THEN [raised |-> "none", result |-> <<>>]
    ELSE IF checkpw_raises(db[username]["hashed_password"])
    THEN [raised |-> "ValueError"]
    ELSE IF ~checkpw(password, db[username]["hashed_password"])
    THEN [raised |-> "none", result |-> <<>>]
    ELSE [raised |-> "none", result |-> <<db[username]>>]

\* crm_10 create_access_token(data, expires_delta=None) at clock t; `if
\* expires_delta:` is false for None and for a zero timedelta alike.
create_access_token_10(data, expires_delta, t) ==
    LET expire == IF expires_delta # <<>> /\ expires_delta[1] # 0
                  THEN t + expires_delta[1]
                  ELSE t + timedelta_minutes(DEFAULT_EXPIRE_MINUTES)
        to_encode == DictSet(data, "exp", expire)
    IN  [token |-> jwt_encode(to_encode, SECRET_KEY_10, "HS256"), data |-> data]

\* The `if not user` test left out: a token is minted for the submitted
\* username whatever authenticate_user returned.
login_for_access_token_response_unchecked(db, username, password, t) ==
    LET issue == create_access_token_10([sub |-> username],
                     <<timedelta_minutes(ACCESS_TOKEN_EXPIRE_MINUTES)>>, t)
    IN  [status_code |-> 200,
         body |-> [access_token |-> issue.token, token_type |-> "bearer"]]

\* login_for_access_token(login_request, db) at clock t: the HTTP response.
login_for_access_token_response(db, username, password, t) ==
    LET a == authenticate_user_10(db, username, password) IN
    IF a.raised # "none"
    THEN [status_code |-> HTTP_500_INTERNAL_SERVER_ERROR,
          detail |-> "Internal Server Error"]
    ELSE IF a.result = <<>>
    THEN [status_code |-> HTTP_401_UNAUTHORIZED, detail |-> "Invalid credentials",
          headers |-> [WWW_Authenticate |-> "Bearer"]]
    ELSE LET issue == create_access_token_10([sub |-> a.result[1]["username"]],
                          <<timedelta_minutes(ACCESS_TOKEN_EXPIRE_MINUTES)>>, t)
         IN  [status_code |-> 200,
              body |-> [access_token |-> issue.token, token_type |-> "bearer"]]

\* --------------------------------------------------- crm_4: the values

\* class Player(Enum).
Player_X == "X"

Player_O == "O"

Player_EMPTY == ""

\* class GameStatus(Enum).
PLAYING == "playing"

DRAW == "draw"

WIN_X == "win_x"

WIN_O == "win_o"

\* range(3).
Range3 == 0..2

\* A board is a list of three rows of three cells, indexed from 0.
EmptyBoard == [r \in Range3 |-> [c \in Range3 |-> Player_EMPTY]]

\* board[r][c] = mark.
Place(b, r, c, mark) == [b EXCEPT ![r][c] = mark]

\* a == b == c != Player.EMPTY.
SameMark(a, b, c) == a = b /\ b = c /\ c # Player_EMPTY

Max(a, b) == IF a >= b THEN a ELSE b

Min(a, b) == IF a <= b THEN a ELSE b

\* math.inf: above every score _minimax returns, which lie in -10..10.
Inf == 100

\* ---------------------------------------------------- crm_4: MinimaxAI

\* MinimaxAI(ai_player, opponent) as the application constructs it.
AI_O == [ai_player |-> Player_O, opponent |-> Player_X]

\* MinimaxAI._check_winner: row i and column i for i = 0, 1, 2 in turn, then
\* the two diagonals; the mark of the first complete line found, or None.
_check_winner(b) ==
    LET lines == << <<b[0][0], b[0][1], b[0][2]>>, <<b[0][0], b[1][0], b[2][0]>>,
                    <<b[1][0], b[1][1], b[1][2]>>, <<b[0][1], b[1][1], b[2][1]>>,
                    <<b[2][0], b[2][1], b[2][2]>>, <<b[0][2], b[1][2], b[2][2]>>,
                    <<b[0][0], b[1][1], b[2][2]>>, <<b[0][2], b[1][1], b[2][0]>> >>
        complete == { i \in 1..8 : SameMark(lines[i][1], lines[i][2], lines[i][3]) }
    IN  IF complete = {} THEN None
        ELSE lines[CHOOSE i \in complete : \A j \in complete : i <= j][1]

\* MinimaxAI._is_board_full.
_is_board_full(b) == \A r \in Range3, c \in Range3 : b[r][c] # Player_EMPTY

RECURSIVE _minimax(_, _, _, _, _, _)
RECURSIVE _minimax_max_loop(_, _, _, _, _, _, _)
RECURSIVE _minimax_min_loop(_, _, _, _, _, _, _)

\* _minimax, lines 71-82: the loops of the maximizing branch from cell k on
\* (cells in row-major order, k = 3 * r + c).  `break` leaves the loop over
\* the columns only: the search goes on with the next row.
_minimax_max_loop(self, b, depth, alpha, beta, best_score, k) ==
    IF k > 8 THEN best_score
    ELSE IF b[k \div 3][k % 3] # Player_EMPTY
    THEN _minimax_max_loop(self, b, depth, alpha, beta, best_score, k + 1)
    ELSE LET score == _minimax(self, Place(b, k \div 3, k % 3, self.ai_player),
                               depth + 1, FALSE, alpha, beta)
         IN  _minimax_max_loop(self, b, depth, Max(alpha, score), beta,
                               Max(score, best_score),
                               IF beta <= Max(alpha, score)
                               THEN 3 * (k \div 3 + 1) ELSE k + 1)

RECURSIVE _minimax_min_loop_cut_before_update(_, _, _, _, _, _, _)

\* The cut-off taken before best_score is updated: the score that causes the
\* break is lost.
_minimax_min_loop_cut_before_update(self, b, depth, alpha, beta, best_score, k) ==
    IF k > 8 THEN best_score
    ELSE IF b[k \div 3][k % 3] # Player_EMPTY
    THEN _minimax_min_loop_cut_before_update(self, b, depth, alpha, beta,
                                             best_score, k + 1)
    ELSE LET score == _minimax(self, Place(b, k \div 3, k % 3, self.opponent),
                               depth + 1, TRUE, alpha, beta)
         IN  IF Min(beta, score) <= alpha
             THEN _minimax_min_loop_cut_before_update(self, b, depth, alpha,
                     Min(beta, score), best_score, 3 * (k \div 3 + 1))
             ELSE _minimax_min_loop_cut_before_update(self, b, depth, alpha,
                     Min(beta, score), Min(score, best_score), k + 1)

\* _minimax, lines 83-94: the loops of the minimizing branch.
_minimax_min_loop(self, b, depth, alpha, beta, best_score, k) ==
    IF k > 8 THEN best_score
    ELSE IF b[k \div 3][k % 3] # Player_EMPTY
    THEN _minimax_min_loop(self, b, depth, alpha, beta, best_score, k + 1)
    ELSE LET score == _minimax(self, Place(b, k \div 3, k % 3, self.opponent),
                               depth + 1, TRUE, alpha, beta)
         IN  _minimax_min_loop(self, b, depth, alpha, Min(beta, score),
                               Min(score, best_score),
                               IF Min(beta, score) <= alpha
                               THEN 3 * (k \div 3 + 1) ELSE k + 1)

\* MinimaxAI._minimax(board, depth, is_maximizing, alpha, beta).
_minimax(self, b, depth, is_maximizing, alpha, beta) ==
    LET res == _check_winner(b) IN
    IF res = self.ai_player THEN 10 - depth
    ELSE IF res = self.opponent THEN depth - 10
    ELSE IF _is_board_full(b) THEN 0
    ELSE IF is_maximizing
    THEN _minimax_max_loop(self, b, depth, alpha, beta, -Inf, 0)
    ELSE _minimax_min_loop(self, b, depth, alpha, beta, Inf, 0)

RECURSIVE get_move_first_empty_loop(_, _)

\* The first empty cell in row-major order, with no search.
get_move_first_empty_loop(b, k) ==
    IF k > 8 THEN <<>>
    ELSE IF b[k \div 3][k % 3] = Player_EMPTY THEN <<k \div 3, k % 3>>
    ELSE get_move_first_empty_loop(b, k + 1)

get_move_first_empty(self, b) == get_move_first_empty_loop(b, 0)

RECURSIVE get_move_loop(_, _, _, _, _)

\* get_move, lines 54-62: the loops from cell k on; a later cell replaces the
\* move only when its score is strictly higher.
get_move_loop(self, b, best_score, move, k) ==
    IF k > 8 THEN move
    ELSE IF b[k \div 3][k % 3] # Player_EMPTY
    THEN get_move_loop(self, b, best_score, move, k + 1)
    ELSE LET score == _minimax(self, Place(b, k \div 3, k % 3, self.ai_player),
                               0, FALSE, -Inf, Inf)
         IN  IF score > best_score
             THEN get_move_loop(self, b, score, <<k \div 3, k % 3>>, k + 1)
             ELSE get_move_loop(self, b, best_score, move, k + 1)

\* MinimaxAI.get_move(board): the tuple (r, c) as <<r, c>>, None as <<>>.
\* The trial marks it writes into the board are removed before it returns.
get_move(self, b) == get_move_loop(self, b, -Inf, <<>>, 0)

\* --------------------------------------------------- crm_4: GameEngine

\* GameEngine._get_winner on the board b.  Line 154 reads the name `board`,
\* which is defined nowhere: evaluating it raises NameError.  The loop reaches
\* line 154 in its first round (i = 0) unless line 153 has returned, that is,
\* unless row 0 is complete; lines 155-157 are never reached.
_get_winner(b) ==
    IF SameMark(b[0][0], b[0][1], b[0][2])
    THEN [raised |-> "none", winner |-> b[0][0]]
    ELSE [raised |-> "NameError"]

\* GameEngine._update_status on the board b: the status it assigns, or the
\* exception that leaves it.
_update_status(b) ==
    LET w == _get_winner(b) IN
    IF w.raised # "none" THEN [raised |-> w.raised]
    ELSE [raised |-> "none",
          status |-> IF w.winner = Player_X THEN WIN_X
                     ELSE IF w.winner = Player_O THEN WIN_O
                     ELSE IF _is_board_full(b) THEN DRAW
                     ELSE PLAYING]

\* The test of the cell left out: only a finished game rejects a move.
make_move_rejects_finished_only(st, b, row, col) == st # PLAYING

\* make_move, line 128: the moves it rejects.
make_move_rejects(st, b, row, col) == st # PLAYING \/ b[row][col] # Player_EMPTY

\* GameEngine.make_move(row, col) on the engine e = [board, current_turn,
\* status]: the engine as the call leaves it, what it returned or raised, and
\* how many times it ran _notify.  An exception out of _update_status leaves
\* the mark of line 131 on the board.
make_move(e, row, col) ==
    IF make_move_rejects(e.status, e.board, row, col)
    THEN [board |-> e.board, current_turn |-> e.current_turn, status |-> e.status,
          raised |-> "none", returned |-> FALSE, notified |-> 0]
    ELSE LET b1 == Place(e.board, row, col, e.current_turn)
             u == _update_status(b1)
         IN  IF u.raised # "none"
             THEN [board |-> b1, current_turn |-> e.current_turn, status |-> e.status,
                   raised |-> u.raised, notified |-> 0]
             ELSE [board |-> b1,
                   current_turn |-> IF u.status # PLAYING THEN e.current_turn
                                    ELSE IF e.current_turn = Player_X THEN Player_O
                                    ELSE Player_X,
                   status |-> u.status,
                   raised |-> "none", returned |-> TRUE, notified |-> 1]

\* The engine as a record of its fields.
Engine == [board |-> board, current_turn |-> current_turn, status |-> status]

\* engine.make_move(row, col), called directly.
MakeMove ==
    /\ \E row \in Range3, col \in Range3 :
        LET m == make_move(Engine, row, col) IN
        /\ board' = m.board
        /\ current_turn' = m.current_turn
        /\ status' = m.status
        /\ game_last' = [op |-> "make_move", row |-> row, col |-> col,
                         was |-> Engine, out |-> m]
    /\ UNCHANGED <<auth_vars, more_vars, has_ai, pending, ai_board>>

\* A reset that clears the board and leaves turn and status as they are.
reset_board_only(e) ==
    [board |-> EmptyBoard, current_turn |-> e.current_turn, status |-> e.status,
     notified |-> 1]

\* GameEngine.reset() on the engine e: the engine as the call leaves it and
\* how many times it ran _notify.
reset(e) ==
    [board |-> EmptyBoard, current_turn |-> Player_X, status |-> PLAYING,
     notified |-> 1]

\* engine.reset(), called directly or by the reset button.
Reset ==
    /\ board' = reset(Engine).board
    /\ current_turn' = reset(Engine).current_turn
    /\ status' = reset(Engine).status
    /\ game_last' = [op |-> "reset", was |-> Engine,
                     notified |-> reset(Engine).notified]
    /\ UNCHANGED <<auth_vars, more_vars, has_ai, pending, ai_board>>

\* TicTacToeUI._handle_click(r, c).  make_move_calls counts its calls of
\* engine.make_move; an exception out of make_move leaves the handler.
HandleClick ==
    /\ \E r \in Range3, c \in Range3 :
        IF current_turn = Player_X \/ ~has_ai
        THEN LET m == make_move(Engine, r, c) IN
             /\ board' = m.board
             /\ current_turn' = m.current_turn
             /\ status' = m.status
             /\ pending' = IF m.raised = "none" /\ m.returned /\ has_ai
                              /\ m.status = PLAYING
                           THEN pending + 1 ELSE pending
             /\ game_last' = [op |-> "_handle_click", row |-> r, col |-> c,
                              was |-> Engine, make_move_calls |-> 1, out |-> m]
        ELSE /\ game_last' = [op |-> "_handle_click", row |-> r, col |-> c,
                              was |-> Engine, make_move_calls |-> 0]
             /\ UNCHANGED <<board, current_turn, status, pending>>
    /\ UNCHANGED <<auth_vars, more_vars, has_ai, ai_board>>

\* TicTacToeUI._trigger_ai, run by the event loop for a callback that line 259
\* scheduled: get_move on the engine's board, then make_move on its cell.
TriggerAI ==
    /\ has_ai
    /\ pending > 0
    /\ pending' = pending - 1
    /\ LET move == get_move(AI_O, board) IN
        IF move # <<>>
        THEN LET m == make_move(Engine, move[1], move[2]) IN
             /\ board' = m.board
             /\ current_turn' = m.current_turn
             /\ status' = m.status
             /\ game_last' = [op |-> "_trigger_ai", row |-> move[1], col |-> move[2],
                              was |-> Engine, out |-> m]
        ELSE /\ game_last' = [op |-> "_trigger_ai", was |-> Engine]
             /\ UNCHANGED <<board, current_turn, status>>
    /\ UNCHANGED <<auth_vars, more_vars, has_ai, ai_board>>

RECURSIVE get_move_leaves_marked_loop(_, _, _)

\* The trial marks left on the board: line 59 left out.
get_move_leaves_marked_loop(self, b, k) ==
    IF k > 8 THEN b
    ELSE IF b[k \div 3][k % 3] # Player_EMPTY
    THEN get_move_leaves_marked_loop(self, b, k + 1)
    ELSE get_move_leaves_marked_loop(self, Place(b, k \div 3, k % 3, self.ai_player),
                                     k + 1)

get_move_leaves_marked(self, b) == get_move_leaves_marked_loop(self, b, 0)

RECURSIVE get_move_leaves_loop(_, _, _)

\* get_move, lines 54-59: what the loops do to the caller's board from cell k
\* on.  Each empty cell gets the AI's mark (line 57) and is set back to EMPTY
\* (line 59) after _minimax, which undoes its own trial marks the same way
\* (lines 76-78 and 88-90).
get_move_leaves_loop(self, b, k) ==
    IF k > 8 THEN b
    ELSE IF b[k \div 3][k % 3] # Player_EMPTY
    THEN get_move_leaves_loop(self, b, k + 1)
    ELSE get_move_leaves_loop(self,
            Place(Place(b, k \div 3, k % 3, self.ai_player),
                  k \div 3, k % 3, Player_EMPTY),
            k + 1)

\* The caller's board as MinimaxAI.get_move(board) leaves it.
get_move_leaves(self, b) == get_move_leaves_loop(self, b, 0)

\* ---------------------------------- crm_4: MinimaxAI.get_move on any board

\* The most empty cells of a board passed to get_move directly.
MaxEmpty == 5

\* The boards passed to get_move directly: any marks in any cells.
Boards ==
    { b \in [Range3 -> [Range3 -> {Player_X, Player_O, Player_EMPTY}]] :
        Cardinality({ rc \in Range3 \X Range3 : b[rc[1]][rc[2]] = Player_EMPTY })
            <= MaxEmpty }

\* ai.get_move(board) on a board of the caller's.
GetMove ==
    /\ game_last' = [op |-> "get_move", board |-> ai_board,
                     move |-> get_move(AI_O, ai_board)]
    /\ ai_board' = get_move_leaves(AI_O, ai_board)
    /\ UNCHANGED <<auth_vars, more_vars, board, current_turn, status, has_ai, pending>>

\* ------------------------------- crm_4: a game against MinimaxAI.get_move

\* The number of cells of b that hold `mark`.
Count(b, mark) == Cardinality({ rc \in Range3 \X Range3 : b[rc[1]][rc[2]] = mark })

\* The game on b is over: a line is complete or no cell is empty.
GameOver(b) == _check_winner(b) # None \/ _is_board_full(b)

\* The opponent X, who moves first, puts a mark into any empty cell.
OpponentMove ==
    /\ ~GameOver(ai_board)
    /\ Count(ai_board, Player_X) = Count(ai_board, Player_O)
    /\ \E r \in Range3, c \in Range3 :
        /\ ai_board[r][c] = Player_EMPTY
        /\ ai_board' = Place(ai_board, r, c, Player_X)
    /\ UNCHANGED <<auth_vars, more_vars, board, current_turn, status, has_ai, pending, game_last>>

\* O answers with the cell MinimaxAI(ai_player=O, opponent=X).get_move returns.
AIMove ==
    /\ ~GameOver(ai_board)
    /\ Count(ai_board, Player_X) > Count(ai_board, Player_O)
    /\ LET move == get_move(AI_O, ai_board) IN
        /\ move # <<>>
        /\ ai_board' = Place(ai_board, move[1], move[2], Player_O)
    /\ UNCHANGED <<auth_vars, more_vars, board, current_turn, status, has_ai, pending, game_last>>

\* The game of crm_4 as TicTacToeApp constructs it, before any call.
GameIdle ==
    /\ board = EmptyBoard
    /\ current_turn = Player_X
    /\ status = PLAYING
    /\ has_ai = TRUE
    /\ pending = 0
    /\ game_last = [op |-> "none"]
    /\ ai_board = EmptyBoard

\* ------------------------------------------- crm_8: GameLogicController

\* GameStatus of crm_8.
IN_PROGRESS == "In Progress"
X_WON == "X Won"
O_WON == "O Won"
DRAW_8 == "Draw"

\* The board __init__ and reset_game build: every cell is None.
NoneBoard == [r \in Range3 |-> [c \in Range3 |-> None]]

\* The lines StandardWinStrategy.check_winner looks at, in the order it looks
\* at them: row i and column i for i = 0, 1, 2, then the two diagonals.
check_winner_lines ==
    << <<<<0, 0>>, <<0, 1>>, <<0, 2>>>>, <<<<0, 0>>, <<1, 0>>, <<2, 0>>>>,
       <<<<1, 0>>, <<1, 1>>, <<1, 2>>>>, <<<<0, 1>>, <<1, 1>>, <<2, 1>>>>,
       <<<<2, 0>>, <<2, 1>>, <<2, 2>>>>, <<<<0, 2>>, <<1, 2>>, <<2, 2>>>>,
       <<<<0, 0>>, <<1, 1>>, <<2, 2>>>>, <<<<0, 2>>, <<1, 1>>, <<2, 0>>>> >>

\* StandardWinStrategy.check_winner: the mark of the first line whose three
\* cells are equal and not None, or None.
check_winner(b) ==
    LET at(l, k) == b[check_winner_lines[l][k][1]][check_winner_lines[l][k][2]]
        complete(l) == at(l, 1) = at(l, 2) /\ at(l, 2) = at(l, 3) /\ at(l, 1) # None
        found == { l \in DOMAIN check_winner_lines : complete(l) }
    IN  IF found = {} THEN None
        ELSE at(CHOOSE l \in found : \A m \in found : l <= m, 1)

\* all(all(cell is not None ...)) of _update_game_state.
board_is_full(b) == \A r \in Range3, c \in Range3 : b[r][c] # None

\* A GameLogicController as __init__ leaves it; scores is [X_score, O_score].
NewController ==
    [board |-> NoneBoard, current_player |-> "X", status |-> IN_PROGRESS,
     scores |-> <<0, 0>>]

_update_game_state_draw_first(g) ==
    LET winner == check_winner(g.board) IN
    IF board_is_full(g.board) THEN [g EXCEPT !.status = DRAW_8]
    ELSE IF winner = "X"
    THEN [g EXCEPT !.status = X_WON, !.scores[1] = @ + 1]
    ELSE IF winner = "O"
    THEN [g EXCEPT !.status = O_WON, !.scores[2] = @ + 1]
    ELSE g

\* GameLogicController._update_game_state.
_update_game_state(g) ==
    LET winner == check_winner(g.board) IN
    IF winner = "X"
    THEN [g EXCEPT !.status = X_WON, !.scores[1] = @ + 1]
    ELSE IF winner = "O"
    THEN [g EXCEPT !.status = O_WON, !.scores[2] = @ + 1]
    ELSE IF board_is_full(g.board)
    THEN [g EXCEPT !.status = DRAW_8]
    ELSE g

make_move_refused_when_occupied(g, row, col) == g.board[row][col] # None

\* The test of make_move that returns False without placing a mark.
make_move_refused(g, row, col) ==
    g.board[row][col] # None \/ g.status # IN_PROGRESS

controller_make_move_always_switches(g, row, col) ==
    IF ~(0 <= row /\ row < 3 /\ 0 <= col /\ col < 3)
    THEN [controller |-> g, returned |-> FALSE, printed |-> TRUE]
    ELSE IF make_move_refused(g, row, col)
    THEN [controller |-> g, returned |-> FALSE, printed |-> FALSE]
    ELSE LET placed == [g EXCEPT !.board[row][col] = g.current_player]
             updated == _update_game_state(placed)
         IN  [controller |->
                 [updated EXCEPT !.current_player = IF @ = "X" THEN "O" ELSE "X"],
              returned |-> TRUE, printed |-> FALSE]

\* GameLogicController.make_move: the controller after the call, the value
\* returned, and whether the except clause printed an error.  The ValueError
\* raised for coordinates out of bounds is caught inside the method.
controller_make_move(g, row, col) ==
    IF ~(0 <= row /\ row < 3 /\ 0 <= col /\ col < 3)
    THEN [controller |-> g, returned |-> FALSE, printed |-> TRUE]
    ELSE IF make_move_refused(g, row, col)
    THEN [controller |-> g, returned |-> FALSE, printed |-> FALSE]
    ELSE LET placed == [g EXCEPT !.board[row][col] = g.current_player]
             updated == _update_game_state(placed)
         IN  [controller |->
                 IF updated.status = IN_PROGRESS
                 THEN [updated EXCEPT
                          !.current_player = IF @ = "X" THEN "O" ELSE "X"]
                 ELSE updated,
              returned |-> TRUE, printed |-> FALSE]

reset_game_clears_scores(g) == NewController

\* GameLogicController.reset_game.
reset_game(g) ==
    [g EXCEPT !.board = NoneBoard, !.current_player = "X",
              !.status = IN_PROGRESS]

\* The most rounds the controller's scores count.
MaxScore == 2

\* The (row, col) pairs a caller passes to GameLogicController.make_move:
\* every cell of the board, and pairs with a coordinate below 0 or above 2.
Coordinates ==
    (Range3 \X Range3) \cup {<<3, 0>>, <<-1, 2>>, <<0, 3>>, <<1, -1>>, <<3, 3>>}

\* The mark placed at (row, col) of board b completes a line of three.
LineThrough(b, row, col, mark) ==
    \E l \in DOMAIN check_winner_lines :
        /\ \E k \in 1..3 : check_winner_lines[l][k] = <<row, col>>
        /\ \A k \in 1..3 :
              b[check_winner_lines[l][k][1]][check_winner_lines[l][k][2]] = mark

\* A call of GameLogicController.make_move.  controller_rounds counts the
\* accepted moves whose mark completed a line.
ControllerMakeMove ==
    /\ \E rc \in Coordinates :
        LET out == controller_make_move(controller, rc[1], rc[2]) IN
        /\ controller' = out.controller
        /\ controller_last' =
              [op |-> "make_move", row |-> rc[1], col |-> rc[2], was |-> controller,
               returned |-> out.returned, printed |-> out.printed]
        /\ controller_rounds' =
              IF out.returned /\ LineThrough(out.controller.board, rc[1], rc[2],
                                             controller.current_player)
              THEN [controller_rounds EXCEPT !.completed = @ + 1]
              ELSE controller_rounds
    /\ UNCHANGED <<auth_vars, crm4_vars, crm5_vars, request>>

\* A call of GameLogicController.reset_game, which begins a round.
ControllerResetGame ==
    /\ controller.scores[1] + controller.scores[2] < MaxScore
    /\ controller' = reset_game(controller)
    /\ controller_last' = [op |-> "reset_game", was |-> controller]
    /\ controller_rounds' =
          [controller_rounds EXCEPT
              !.total_at_reset = controller.scores[1] + controller.scores[2]]
    /\ UNCHANGED <<auth_vars, crm4_vars, crm5_vars, request>>

\* The controller of crm_8 as main constructs it, before any call.
ControllerIdle ==
    /\ controller = NewController
    /\ controller_last = [op |-> "none"]
    /\ controller_rounds = [completed |-> 0, total_at_reset |-> 0]

\* ------------------------------------------- crm_5: TicTacToe (first part)

\* PlayerSymbol of crm_5.
PlayerSymbol_X == "X"
PlayerSymbol_O == "O"

\* GameStatus of crm_5.
PLAYING_5 == "playing"
X_WINS == "x_wins"
O_WINS == "o_wins"
DRAW_5 == "draw"

\* The two Player objects main passes to TicTacToe.
player1 == [symbol |-> PlayerSymbol_X, name |-> "Player X"]
player2 == [symbol |-> PlayerSymbol_O, name |-> "Player O"]

\* GameBoard(3).board: every cell is None.
GameBoard_init == [r \in Range3 |-> [c \in Range3 |-> None]]

GameBoard_make_move_overwrites(b, row, col, symbol) ==
    IF ~(0 <= row /\ row < 3 /\ 0 <= col /\ col < 3)
    THEN [board |-> b, raised |-> "IndexError", returned |-> <<>>]
    ELSE [board |-> [b EXCEPT ![row][col] = symbol], raised |-> None,
          returned |-> <<TRUE>>]

\* GameBoard.make_move: IndexError out of bounds, False on an occupied cell,
\* otherwise the symbol is placed and True returned.  returned is <<>> when
\* the call raised.
GameBoard_make_move(b, row, col, symbol) ==
    IF ~(0 <= row /\ row < 3 /\ 0 <= col /\ col < 3)
    THEN [board |-> b, raised |-> "IndexError", returned |-> <<>>]
    ELSE IF b[row][col] # None
    THEN [board |-> b, raised |-> None, returned |-> <<FALSE>>]
    ELSE [board |-> [b EXCEPT ![row][col] = symbol], raised |-> None,
          returned |-> <<TRUE>>]

\* GameBoard.is_full.
GameBoard_is_full(b) == \A r \in Range3, c \in Range3 : b[r][c] # None

_check_win_without_anti_diagonal(b, row, col) ==
    LET symbol == b[row][col] IN
    \/ \A c \in Range3 : b[row][c] = symbol
    \/ \A r \in Range3 : b[r][col] = symbol
    \/ (row = col /\ \A i \in Range3 : b[i][i] = symbol)

\* TicTacToe._check_win: the row and the column of the last move, and the
\* diagonals the cell lies on, hold the symbol of that cell throughout.
_check_win(b, row, col) ==
    LET symbol == b[row][col] IN
    \/ \A c \in Range3 : b[row][c] = symbol
    \/ \A r \in Range3 : b[r][col] = symbol
    \/ (row = col /\ \A i \in Range3 : b[i][i] = symbol)
    \/ (row + col = 3 - 1 /\ \A i \in Range3 : b[i][3 - 1 - i] = symbol)

\* A TicTacToe as __init__ leaves it; winner is <<>> for None.
NewTicTacToe ==
    [board |-> GameBoard_init, current_player |-> player1,
     status |-> PLAYING_5, winner |-> <<>>, move_history |-> <<>>]

TicTacToe_make_move_status_on_next_move(g, row, col) ==
    IF g.status # PLAYING_5
    THEN [game |-> g, raised |-> "ValueError", returned |-> <<>>]
    ELSE LET placed == GameBoard_make_move(g.board, row, col,
                                           g.current_player.symbol)
         IN
         IF placed.raised # None
         THEN [game |-> g, raised |-> placed.raised, returned |-> <<>>]
         ELSE IF placed.returned = <<FALSE>>
         THEN [game |-> g, raised |-> None, returned |-> <<FALSE>>]
         ELSE [game |->
                 [g EXCEPT !.board = placed.board,
                           !.move_history =
                               Append(@, <<row, col, g.current_player.symbol>>),
                           !.current_player =
                               IF @ = player1 THEN player2 ELSE player1],
               raised |-> None, returned |-> <<TRUE>>]

\* TicTacToe.make_move: the game after the call, the exception raised (None
\* when none) and the value returned.
TicTacToe_make_move(g, row, col) ==
    IF g.status # PLAYING_5
    THEN [game |-> g, raised |-> "ValueError", returned |-> <<>>]
    ELSE LET placed == GameBoard_make_move(g.board, row, col,
                                           g.current_player.symbol)
         IN
         IF placed.raised # None
         THEN [game |-> g, raised |-> placed.raised, returned |-> <<>>]
         ELSE IF placed.returned = <<FALSE>>
         THEN [game |-> g, raised |-> None, returned |-> <<FALSE>>]
         ELSE LET won == _check_win(placed.board, row, col)
                  full == GameBoard_is_full(placed.board)
              IN
              [game |->
                 [g EXCEPT !.board = placed.board,
                           !.move_history =
                               Append(@, <<row, col, g.current_player.symbol>>),
                           !.status =
                               IF won
                               THEN (IF g.current_player.symbol = PlayerSymbol_X
                                     THEN X_WINS ELSE O_WINS)
                               ELSE IF full THEN DRAW_5 ELSE @,
                           !.winner = IF won THEN <<g.current_player>> ELSE @,
                           !.current_player =
                               IF @ = player1 THEN player2 ELSE player1],
               raised |-> None, returned |-> <<TRUE>>]

\* TicTacToe.reset.
TicTacToe_reset(g) == NewTicTacToe

\* The first three cells of the games played: X, O, X.
Openings ==
    { << <<0, 0>>, <<1, 1>>, <<0, 1>> >>,
      << <<1, 1>>, <<0, 0>>, <<2, 2>> >>,
      << <<0, 1>>, <<1, 1>>, <<2, 0>> >> }

\* The cells of a move history followed by cell rc begin like an opening.
FollowsOpening(cells, rc) ==
    LET played == Append(cells, rc) IN
    \E o \in Openings :
        \A i \in 1..Min(Len(o), Len(played)) : o[i] = played[i]

\* A call of TicTacToe.make_move.
TicTacToeMakeMove ==
    /\ \E rc \in Coordinates :
        LET out == TicTacToe_make_move(tictactoe, rc[1], rc[2])
            cells == [i \in DOMAIN tictactoe.move_history |->
                        <<tictactoe.move_history[i][1],
                          tictactoe.move_history[i][2]>>]
        IN
        /\ out.returned = <<TRUE>> => FollowsOpening(cells, rc)
        /\ tictactoe' = out.game
        /\ tictactoe_last' =
              [op |-> "make_move", row |-> rc[1], col |-> rc[2],
               was |-> tictactoe, raised |-> out.raised,
               returned |-> out.returned]
    /\ UNCHANGED <<auth_vars, crm4_vars, crm8_vars, game_engine, game_engine_last, request>>

\* A call of TicTacToe.reset.
TicTacToeReset ==
    /\ tictactoe' = TicTacToe_reset(tictactoe)
    /\ tictactoe_last' = [op |-> "reset", was |-> tictactoe]
    /\ UNCHANGED <<auth_vars, crm4_vars, crm8_vars, game_engine, game_engine_last, request>>

\* The TicTacToe of crm_5 as main constructs it, before any call.
TicTacToeIdle ==
    /\ tictactoe = NewTicTacToe
    /\ tictactoe_last = [op |-> "none"]

\* ------------------------------------------- crm_5: GameEngine (second part)

\* GameBoard().board of the second part: every cell is "".
GameBoard_2_init == [r \in Range3 |-> [c \in Range3 |-> ""]]

\* GameBoard.set_cell of the second part: the board after the call and the
\* exception raised, None when none.
set_cell(b, row, col, symbol) ==
    IF ~(0 <= row /\ row < 3 /\ 0 <= col /\ col < 3)
    THEN [board |-> b, raised |-> "IndexError",
          message |-> "Row and column must be between 0 and 2"]
    ELSE IF symbol \notin {"X", "O"}
    THEN [board |-> b, raised |-> "ValueError", message |-> "Invalid symbol"]
    ELSE IF b[row][col] # ""
    THEN [board |-> b, raised |-> "ValueError",
          message |-> "Cell already occupied"]
    ELSE [board |-> [b EXCEPT ![row][col] = symbol], raised |-> None,
          message |-> ""]

\* GameBoard.clear_cell of the second part, on a cell of the board.
clear_cell(b, row, col) == [b EXCEPT ![row][col] = ""]

\* GameBoard.is_full of the second part.
GameBoard_2_is_full(b) == \A r \in Range3, c \in Range3 : b[r][c] # ""

\* The lines WinChecker.check_winner looks at, in its order: rows, columns,
\* diagonals.
WinChecker_lines ==
    << <<<<0, 0>>, <<0, 1>>, <<0, 2>>>>, <<<<1, 0>>, <<1, 1>>, <<1, 2>>>>,
       <<<<2, 0>>, <<2, 1>>, <<2, 2>>>>, <<<<0, 0>>, <<1, 0>>, <<2, 0>>>>,
       <<<<0, 1>>, <<1, 1>>, <<2, 1>>>>, <<<<0, 2>>, <<1, 2>>, <<2, 2>>>>,
       <<<<0, 0>>, <<1, 1>>, <<2, 2>>>>, <<<<0, 2>>, <<1, 1>>, <<2, 0>>>> >>

\* WinChecker.check_winner: the first cell of the first line whose first cell
\* is not "" and occurs three times in the line, or None.
WinChecker_check_winner(b) ==
    LET at(l, k) == b[WinChecker_lines[l][k][1]][WinChecker_lines[l][k][2]]
        count(l) == Cardinality({ k \in 1..3 : at(l, k) = at(l, 1) })
        found == { l \in DOMAIN WinChecker_lines : at(l, 1) # "" /\ count(l) = 3 }
    IN  IF found = {} THEN None
        ELSE at(CHOOSE l \in found : \A m \in found : l <= m, 1)

\* The symbols of GameEngine.players, by current_player_index.
players_symbol(index) == IF index = 0 THEN "X" ELSE "O"

_switch_player_stays(e) == e

\* GameEngine._switch_player.
_switch_player(e) ==
    [e EXCEPT !.current_player_index = (@ + 1) % 2]

\* A GameEngine as __init__ leaves it.
NewGameEngine ==
    [current_player_index |-> 0, board |-> GameBoard_2_init, winner |-> None,
     game_over |-> FALSE, move_history |-> <<>>]

\* GameEngine.make_move: the engine after the call, and the "success" and the
\* "error" or "message" of the dict returned.
GameEngine_make_move(e, row, col) ==
    IF e.game_over
    THEN [engine |-> e, success |-> FALSE, text |-> "Game is already over"]
    ELSE
    LET symbol == players_symbol(e.current_player_index)
        set == set_cell(e.board, row, col, symbol)
    IN
    IF set.raised # None
    THEN [engine |-> e, success |-> FALSE, text |-> set.message]
    ELSE
    LET placed == [e EXCEPT !.board = set.board,
                       !.move_history =
                           Append(@, [row |-> row, col |-> col, symbol |-> symbol])]
        winner == WinChecker_check_winner(placed.board)
    IN
    IF winner # None
    THEN [engine |-> [placed EXCEPT !.winner = winner, !.game_over = TRUE],
          success |-> TRUE,
          text |-> IF winner = "X" THEN "X wins!" ELSE "O wins!"]
    ELSE IF GameBoard_2_is_full(placed.board)
    THEN [engine |-> [placed EXCEPT !.game_over = TRUE],
          success |-> TRUE, text |-> "Game ended in a draw"]
    ELSE [engine |-> _switch_player(placed),
          success |-> TRUE, text |-> "Move successful"]

GameEngine_undo_move_when_over(e) ==
    IF e.move_history = <<>>
    THEN [engine |-> e, returned |-> FALSE]
    ELSE LET last_move == e.move_history[Len(e.move_history)] IN
         [engine |->
             _switch_player([e EXCEPT
                 !.move_history = SubSeq(@, 1, Len(@) - 1),
                 !.board = clear_cell(@, last_move.row, last_move.col)]),
          returned |-> TRUE]

GameEngine_undo_move_keeps_cell(e) ==
    IF e.move_history = <<>> \/ e.game_over
    THEN [engine |-> e, returned |-> FALSE]
    ELSE [engine |->
             _switch_player([e EXCEPT
                 !.move_history = SubSeq(@, 1, Len(@) - 1)]),
          returned |-> TRUE]

\* GameEngine.undo_move: the engine after the call and the value returned.
GameEngine_undo_move(e) ==
    IF e.move_history = <<>> \/ e.game_over
    THEN [engine |-> e, returned |-> FALSE]
    ELSE LET last_move == e.move_history[Len(e.move_history)] IN
         [engine |->
             _switch_player([e EXCEPT
                 !.move_history = SubSeq(@, 1, Len(@) - 1),
                 !.board = clear_cell(@, last_move.row, last_move.col)]),
          returned |-> TRUE]

\* GameEngine.reset_game.
GameEngine_reset_game(e) == NewGameEngine

\* A call of GameEngine.make_move.
GameEngineMakeMove ==
    /\ \E rc \in Coordinates :
        LET out == GameEngine_make_move(game_engine, rc[1], rc[2])
            cells == [i \in DOMAIN game_engine.move_history |->
                        <<game_engine.move_history[i].row,
                          game_engine.move_history[i].col>>]
        IN
        /\ out.success => FollowsOpening(cells, rc)
        /\ game_engine' = out.engine
        /\ game_engine_last' =
              [op |-> "make_move", row |-> rc[1], col |-> rc[2],
               was |-> game_engine, success |-> out.success, text |-> out.text]
    /\ UNCHANGED <<auth_vars, crm4_vars, crm8_vars, tictactoe, tictactoe_last, request>>

\* A call of GameEngine.undo_move.  prior is the engine as it was before the
\* call that preceded this one, when that call was an accepted make_move.
GameEngineUndoMove ==
    /\ LET out == GameEngine_undo_move(game_engine) IN
        /\ game_engine' = out.engine
        /\ game_engine_last' =
              [op |-> "undo_move", was |-> game_engine, returned |-> out.returned,
               prior |-> IF game_engine_last.op = "make_move"
                            /\ game_engine_last.success
                         THEN <<game_engine_last.was>> ELSE <<>>]
    /\ UNCHANGED <<auth_vars, crm4_vars, crm8_vars, tictactoe, tictactoe_last, request>>

\* A call of GameEngine.reset_game.
GameEngineResetGame ==
    /\ game_engine' = GameEngine_reset_game(game_engine)
    /\ game_engine_last' = [op |-> "reset_game", was |-> game_engine]
    /\ UNCHANGED <<auth_vars, crm4_vars, crm8_vars, tictactoe, tictactoe_last, request>>

\* The GameEngine of crm_5 as main constructs it, before any call.
GameEngineIdle ==
    /\ game_engine = NewGameEngine
    /\ game_engine_last = [op |-> "none"]

\* The games other than that of crm_4 as they are when not in use.
MoreIdle ==
    /\ ControllerIdle
    /\ TicTacToeIdle
    /\ GameEngineIdle
    /\ request = [pc |-> "idle"]

\* ------------------------------------------------------------- the inputs

\* The longest time-to-live, in ticks, a caller passes to create_access_token.
MaxTtl == 2

Ttls == 0..MaxTtl

\* The claims maps a caller passes to create_access_token.
ClaimsInputs == { [sub |-> u] : u \in Usernames } \cup { [sub |-> "alice", role |-> "admin"] }

LoginNames10 == {"user1", "user2", "nonexistent_user"}

LoginPasswords10 == {"password1", "password2"}

\* The usernames looked up directly: those of a login, one in another case
\* and the empty string.
FindNames10 == LoginNames10 \cup {"USER1", ""}

\* The threads that call create_user concurrently.
Threads == {"t1", "t2"}

\* The client before any token was handed to it.
NoToken == [by |-> "nobody"]

\* The key the issuer of the client's token signs and decodes with.
KeyOf(by) == IF by = "crm_10" THEN SECRET_KEY_10 ELSE SECRET_KEY_13

\* What can be made of a token without the key: another subject, another
\* expiry, or the algorithm "none", under the signature as issued, or a
\* signature computed with a key that is not the issuer's.
Tampered(token) ==
    { [token EXCEPT !.payload = DictSet(@, "sub", u)] :
        u \in Usernames \ {token.payload["sub"]} }
    \cup { [token EXCEPT !.payload = DictSet(@, "exp", e)] :
        e \in (0..(MaxNow \div TicksPerSecond + 1)) \ {token.payload["exp"]} }
    \cup { [token EXCEPT !.header = [alg |-> "none", typ |-> "JWT"]] }
    \cup { [token EXCEPT !.signature = Sign(token.header, token.payload, "guessed-key")] }

\* The token string with the last character of its signature segment replaced
\* by another one that carries the same 4 signature bits.
Reencoded(token) == { [token EXCEPT !.spare = b] : b \in 1..3 }

\* A string that is no three-part token.
Garbage == [parsable |-> FALSE]

\* The tokens a client can present.
Presented ==
    IF client.by = "nobody" THEN {Garbage}
    ELSE {client.token, Garbage} \cup Tampered(client.token)
            \cup Reencoded(client.token)

\* ------------------------------------------------------------ the actions

Init ==
    /\ users = EmptyDict
    /\ injected = FALSE
    /\ users_db \in { InitialUsersDb(s1, s2) : s1, s2 \in Salts }
    /\ now = 0
    /\ client = NoToken
    /\ last = [op |-> "none"]
    /\ frames = [t \in Threads |-> [pc |-> "idle"]]
    /\ GameIdle
    /\ MoreIdle

\* Time passes, up to the end of the modelled period.
Tick ==
    /\ now < MaxNow
    /\ now' = now + 1
    /\ UNCHANGED <<users, injected, users_db, client, last, frames, crm4_vars, more_vars>>

\* repo.create_user(user_data) on the shared repository.
CreateUser == \E user_data \in UserDataInputs : create_user(user_data)

\* authenticate_user(username, password) of crm_13.
AuthenticateUser ==
    /\ \E username \in Usernames, password \in Passwords :
        last' = [op |-> "authenticate_user", username |-> username,
                 password |-> password,
                 out |-> authenticate_user(get_user_repository, username, password)]
    /\ UNCHANGED <<users, injected, users_db, now, client, frames, crm4_vars, more_vars>>

\* POST /login of crm_13.
Login ==
    /\ \E username \in Usernames, password \in Passwords :
        LET r == login_response(get_user_repository, username, password, now) IN
        /\ last' = [op |-> "login", username |-> username, password |-> password,
                    response |-> r]
        /\ client' = IF r.status_code = 200
                     THEN [by |-> "crm_13", token |-> r.body.token,
                           data |-> [sub |-> r.body.username],
                           data_after |-> [sub |-> r.body.username],
                           expires_delta |-> <<timedelta_minutes(LOGIN_EXPIRES_MINUTES)>>,
                           at |-> now]
                     ELSE client
    /\ UNCHANGED <<users, injected, users_db, now, frames, crm4_vars, more_vars>>

\* create_access_token(data, expires_delta) of crm_13, called directly.
CreateAccessToken ==
    /\ \E data \in ClaimsInputs, ttl \in Ttls :
        LET issue == create_access_token(data, ttl, now) IN
        /\ client' = [by |-> "crm_13", token |-> issue.token, data |-> data,
                      data_after |-> issue.data, expires_delta |-> <<ttl>>, at |-> now]
        /\ last' = [op |-> "create_access_token", token |-> issue.token]
    /\ UNCHANGED <<users, injected, users_db, now, frames, crm4_vars, more_vars>>

\* jwt.decode of a presented token with the key of the client's issuer.
Decode ==
    /\ \E token \in Presented :
        last' = [op |-> "decode", token |-> token, at |-> now,
                 out |-> jwt_decode(token, KeyOf(client.by), {"HS256"}, TRUE, now)]
    /\ UNCHANGED <<users, injected, users_db, now, client, frames, crm4_vars, more_vars>>

\* GET /protected of crm_13 with a presented token.
ProtectedRoute ==
    /\ \E token \in Presented :
        LET outcome == get_current_user(get_user_repository, token, now) IN
        last' = [op |-> "protected_route", token |-> token, at |-> now,
                 outcome |-> outcome,
                 response |-> protected_response(outcome)]
    /\ UNCHANGED <<users, injected, users_db, now, client, frames, crm4_vars, more_vars>>

\* UserRepository.authenticate_user of crm_10.
AuthenticateUser10 ==
    /\ \E username \in LoginNames10, password \in LoginPasswords10 :
        last' = [op |-> "authenticate_user_10", username |-> username,
                 password |-> password,
                 out |-> authenticate_user_10(users_db, username, password)]
    /\ UNCHANGED <<users, injected, users_db, now, client, frames, crm4_vars, more_vars>>

\* UserRepository.get_user_by_username of crm_10.
GetUserByUsername10 ==
    /\ \E username \in FindNames10 :
        last' = [op |-> "get_user_by_username_10", username |-> username,
                 out |-> get_user_by_username_10(users_db, username)]
    /\ UNCHANGED <<users, injected, users_db, now, client, frames, crm4_vars, more_vars>>

\* POST /login of crm_10.
LoginForAccessToken ==
    /\ \E username \in LoginNames10, password \in LoginPasswords10 :
        LET r == login_for_access_token_response(users_db, username, password, now) IN
        /\ last' = [op |-> "login_for_access_token", username |-> username,
                    password |-> password, response |-> r]
        /\ client' = IF r.status_code = 200
                     THEN [by |-> "crm_10", token |-> r.body.access_token,
                           data |-> [sub |-> username],
                           data_after |-> [sub |-> username],
                           expires_delta |-> <<timedelta_minutes(ACCESS_TOKEN_EXPIRE_MINUTES)>>,
                           at |-> now]
                     ELSE client
    /\ UNCHANGED <<users, injected, users_db, now, frames, crm4_vars, more_vars>>

\* create_access_token(data, expires_delta) of crm_10, called directly, with
\* or without an expires_delta.
CreateAccessToken10 ==
    /\ \E data \in ClaimsInputs, expires_delta \in {<<>>} \cup { <<ttl>> : ttl \in Ttls } :
        LET issue == create_access_token_10(data, expires_delta, now) IN
        /\ client' = [by |-> "crm_10", token |-> issue.token, data |-> data,
                      data_after |-> issue.data, expires_delta |-> expires_delta,
                      at |-> now]
        /\ last' = [op |-> "create_access_token_10", token |-> issue.token]
    /\ UNCHANGED <<users, injected, users_db, now, frames, crm4_vars, more_vars>>

\* ---------------------------------- crm_13: create_user calls in threads

\* A thread enters create_user(user_data) and runs line 49.
ThreadCall(t) ==
    /\ frames[t].pc = "idle"
    /\ \E user_data \in UserDataInputs :
        frames' = [frames EXCEPT ![t] =
            IF create_user_invalid(user_data)
            THEN [pc |-> "done", user_data |-> user_data, raised |-> "ValueError",
                  message |-> "Username and password are required"]
            ELSE [pc |-> "check", user_data |-> user_data]]
    /\ UNCHANGED <<users, injected, users_db, now, client, last, crm4_vars, more_vars>>

\* Line 52: the duplicate check reads the shared dict.
ThreadCheck(t) ==
    /\ frames[t].pc = "check"
    /\ frames' = [frames EXCEPT ![t] =
            IF create_user_exists(users, frames[t].user_data)
            THEN [pc |-> "done", user_data |-> frames[t].user_data,
                  raised |-> "ValueError", message |-> "Username already exists"]
            ELSE [pc |-> "hash", user_data |-> frames[t].user_data]]
    /\ UNCHANGED <<users, injected, users_db, now, client, last, crm4_vars, more_vars>>

\* Lines 56-63: bcrypt.hashpw, which runs outside the interpreter lock, and
\* the writes to the call's own dict.
ThreadHash(t) ==
    /\ frames[t].pc = "hash"
    /\ \E salt \in Salts, id \in Uuids :
        frames' = [frames EXCEPT ![t] =
            [pc |-> "insert", user_data |-> frames[t].user_data,
             record |-> create_user_record(frames[t].user_data, salt, id, now)]]
    /\ UNCHANGED <<users, injected, users_db, now, client, last, crm4_vars, more_vars>>

\* Lines 65-66: the insert into the shared dict, and the return.
ThreadInsert(t) ==
    /\ frames[t].pc = "insert"
    /\ users' = create_user_insert(users, frames[t].record)
    /\ frames' = [frames EXCEPT ![t] =
            [pc |-> "done", user_data |-> frames[t].user_data, raised |-> "none",
             result |-> frames[t].record]]
    /\ UNCHANGED <<injected, users_db, now, client, last, crm4_vars, more_vars>>

\* ------------------------------- crm_13: get_current_user, step by step

\* A token create_access_token signs for a caller whose claims name no subject.
Subjectless(t) ==
    { create_access_token([role |-> "admin"], ttl, t).token : ttl \in Ttls }

\* A repository in which create_user has registered alice.
RegisteredStore ==
    create_user_insert(EmptyDict,
        create_user_record([username |-> "alice", password |-> "s3cr3t1"],
                           "saltA", "uuid", 0))

\* Lines 112-120 with the except clauses of lines 129-138: jwt.decode and the
\* test of the "sub" claim, as the position the request is in afterwards.
get_current_user_decode(token, t) ==
    LET d == jwt_decode(token, SECRET_KEY_13, {"HS256"}, TRUE, t) IN
    IF d.raised = "ExpiredSignatureError"
    THEN [pc |-> "Rejected", raised |-> "HTTPException", detail |-> "Token expired"]
    ELSE IF d.raised \in InvalidTokenErrors
    THEN [pc |-> "Rejected", raised |-> "HTTPException", detail |-> "Invalid token"]
    ELSE IF ~Truthy(DictGet(d.payload, "sub", None))
    THEN [pc |-> "Rejected", raised |-> "AuthException", detail |-> "Invalid token"]
    ELSE [pc |-> "Decoded", username |-> d.payload["sub"]]

get_current_user_resolve_unchecked(repo, username) ==
    [pc |-> "Authorized", raised |-> None, detail |-> ""]

\* Lines 123-127: the lookup in the repository and the test of its result.
get_current_user_resolve(repo, username) ==
    IF ~get_user_by_username(repo, username)
    THEN [pc |-> "Rejected", raised |-> "AuthException", detail |-> "User not found"]
    ELSE [pc |-> "Authorized", raised |-> None, detail |-> ""]

\* The request has ended: get_current_user has returned or raised.
Terminal(r) == r.pc \in {"Rejected", "Authorized"}

\* Line 99: a request arrives with a token; the previous one has ended.
RequestReceived ==
    /\ request.pc = "idle" \/ Terminal(request)
    /\ \E token \in Presented \cup Subjectless(now) :
        request' = [pc |-> "Received", token |-> token, decoded_at |-> <<>>,
                    looked_up |-> <<>>]
    /\ UNCHANGED <<auth_vars, crm4_vars, crm8_vars, crm5_vars>>

\* Line 111: the try block is entered.
RequestDecoding ==
    /\ request.pc = "Received"
    /\ request' = [request EXCEPT !.pc = "Decoding"]
    /\ UNCHANGED <<auth_vars, crm4_vars, crm8_vars, crm5_vars>>

\* Lines 112-120: the token is decoded at the clock's time.
RequestDecode ==
    /\ request.pc = "Decoding"
    /\ LET out == get_current_user_decode(request.token, now) IN
        request' = out @@
                   [token |-> request.token, decoded_at |-> <<now>>,
                    looked_up |-> request.looked_up]
    /\ UNCHANGED <<auth_vars, crm4_vars, crm8_vars, crm5_vars>>

\* Line 122: get_user_repository() is called.
RequestResolving ==
    /\ request.pc = "Decoded"
    /\ request' = [request EXCEPT !.pc = "ResolvingIdentity"]
    /\ UNCHANGED <<auth_vars, crm4_vars, crm8_vars, crm5_vars>>

\* Lines 123-127: the repository is asked for the subject.
RequestResolve ==
    /\ request.pc = "ResolvingIdentity"
    /\ LET out == get_current_user_resolve(get_user_repository, request.username) IN
        request' = out @@
                   [token |-> request.token, decoded_at |-> request.decoded_at,
                    username |-> request.username,
                    looked_up |-> Append(request.looked_up, request.username)]
    /\ UNCHANGED <<auth_vars, crm4_vars, crm8_vars, crm5_vars>>

\* ------------------------------------------------------ the specifications

\* The running services: the endpoints of crm_13 and crm_10 and the functions
\* they call.  No endpoint calls create_user.
Next ==
    \/ Tick
    \/ AuthenticateUser
    \/ Login
    \/ CreateAccessToken
    \/ Decode
    \/ ProtectedRoute
    \/ AuthenticateUser10
    \/ GetUserByUsername10
    \/ LoginForAccessToken
    \/ CreateAccessToken10

Spec == Init /\ [][Next]_vars

\* Both modules imported, the repository of crm_13 empty and the users_db of
\* crm_10 as the module builds it.
InitStore ==
    /\ users = EmptyDict
    /\ injected = FALSE
    /\ users_db \in { InitialUsersDb(s1, s2) : s1, s2 \in Salts }
    /\ now = 0
    /\ client = NoToken
    /\ last = [op |-> "none"]
    /\ frames = [t \in Threads |-> [pc |-> "idle"]]
    /\ GameIdle
    /\ MoreIdle

\* The repository of crm_13 used directly, one call after another, beside
\* authenticate_user.
NextStore ==
    \/ Tick
    \/ CreateUser
    \/ AuthenticateUser

SpecStore == InitStore /\ [][NextStore]_vars

\* Two threads, each calling create_user once on the shared repository.
NextConc ==
    \/ \E t \in Threads : ThreadCall(t)
    \/ \E t \in Threads : ThreadCheck(t)
    \/ \E t \in Threads : ThreadHash(t)
    \/ \E t \in Threads : ThreadInsert(t)

SpecConc == InitStore /\ [][NextConc]_vars

\* crm_13 with get_user_repository replaced by an injector that hands out the
\* shared repository, and with users registered in it.
InitShared ==
    /\ users = EmptyDict
    /\ injected = TRUE
    /\ users_db = EmptyDict
    /\ now = 0
    /\ client = NoToken
    /\ last = [op |-> "none"]
    /\ frames = [t \in Threads |-> [pc |-> "idle"]]
    /\ GameIdle
    /\ MoreIdle

NextShared ==
    \/ Tick
    \/ CreateUser
    \/ AuthenticateUser
    \/ Login
    \/ ProtectedRoute

SpecShared == InitShared /\ [][NextShared]_vars

\* get_current_user as the code has it, with the repository get_user_repository
\* constructs, and with an injector that hands out a repository holding alice.
InitAuthorize ==
    /\ users \in {EmptyDict, RegisteredStore}
    /\ injected \in BOOLEAN
    /\ users_db = EmptyDict
    /\ now = 0
    /\ client = NoToken
    /\ last = [op |-> "none"]
    /\ frames = [t \in Threads |-> [pc |-> "idle"]]
    /\ GameIdle
    /\ MoreIdle

\* Tokens are issued, time passes and requests go through get_current_user.
NextAuthorize ==
    \/ Tick
    \/ CreateAccessToken
    \/ RequestReceived
    \/ RequestDecoding
    \/ RequestDecode
    \/ RequestResolving
    \/ RequestResolve

\* get_current_user is straight-line code: a call that has begun takes each
\* of its steps.
SpecAuthorize ==
    /\ InitAuthorize
    /\ [][NextAuthorize]_vars
    /\ WF_vars(RequestDecoding)
    /\ WF_vars(RequestDecode)
    /\ WF_vars(RequestResolving)
    /\ WF_vars(RequestResolve)

\* A hash string written by a scheme other than bcrypt, as a store filled
\* from another system holds it.
legacy_hash(password, salt) == [scheme |-> "md5", salt |-> salt, digest |-> <<salt, password>>]

\* Both stores loaded with records from elsewhere: in each, one user's hash
\* string is of another scheme and the other user's is bcrypt's.  No
\* operation of either module writes such a record; both dicts are plain
\* attributes that their owner fills.
InitLegacy ==
    /\ \E p \in Passwords, s1, s2 \in Salts :
        users = [u \in Usernames |->
                    [username |-> u,
                     password |-> IF u = "alice" THEN legacy_hash(p, s1)
                                                 ELSE hashpw(p, s2),
                     id |-> "uuid", created_at |-> 0]]
    /\ injected = TRUE
    /\ \E s1, s2 \in Salts :
        users_db = [InitialUsersDb(s1, s2) EXCEPT
                        !["user1"]["hashed_password"] = legacy_hash("password1", s1)]
    /\ now = 0
    /\ client = NoToken
    /\ last = [op |-> "none"]
    /\ frames = [t \in Threads |-> [pc |-> "idle"]]
    /\ GameIdle
    /\ MoreIdle

\* Authentication and login of both modules against the loaded stores.
NextLegacy ==
    \/ Tick
    \/ AuthenticateUser
    \/ Login
    \/ AuthenticateUser10
    \/ LoginForAccessToken

SpecLegacy == InitLegacy /\ [][NextLegacy]_vars

\* The authentication modules as they are when not in use.
AuthIdle ==
    /\ users = EmptyDict
    /\ injected = FALSE
    /\ users_db = EmptyDict
    /\ now = 0
    /\ client = NoToken
    /\ last = [op |-> "none"]
    /\ frames = [t \in Threads |-> [pc |-> "idle"]]

\* A fresh GameEngine with a TicTacToeUI on it, with or without an AI.
InitEngine ==
    /\ AuthIdle
    /\ MoreIdle
    /\ board = EmptyBoard
    /\ current_turn = Player_X
    /\ status = PLAYING
    /\ has_ai \in BOOLEAN
    /\ pending = 0
    /\ game_last = [op |-> "none"]
    /\ ai_board = EmptyBoard

\* Calls on the engine and clicks on the UI, in any order.
NextEngine ==
    \/ MakeMove
    \/ Reset
    \/ HandleClick

SpecEngine == InitEngine /\ [][NextEngine]_vars

\* The Tkinter UI of crm_4 with an AI: clicks, presses of the reset button and
\* the scheduled _trigger_ai callbacks, in any order.  No behaviour of it takes
\* a TriggerAI step: make_move returns True only for the move that completes
\* row 0 (see _get_winner), which ends the game, so line 259 schedules nothing.
InitUI ==
    /\ InitEngine
    /\ has_ai

NextUI ==
    \/ HandleClick
    \/ Reset
    \/ TriggerAI

SpecUI == InitUI /\ [][NextUI]_vars

\* A game in which X plays any legal move and O plays MinimaxAI's moves.
InitAI ==
    /\ AuthIdle
    /\ MoreIdle
    /\ GameIdle

NextAI ==
    \/ OpponentMove
    \/ AIMove

SpecAI == InitAI /\ [][NextAI]_vars

\* A fresh GameLogicController.
InitController ==
    /\ AuthIdle
    /\ GameIdle
    /\ MoreIdle

\* Calls of make_move and reset_game on a GameLogicController, in any order.
NextController ==
    \/ ControllerMakeMove
    \/ ControllerResetGame

SpecController == InitController /\ [][NextController]_vars

\* A fresh TicTacToe.
InitTicTacToe ==
    /\ AuthIdle
    /\ GameIdle
    /\ MoreIdle

\* Calls of make_move and reset on a TicTacToe, in any order.
NextTicTacToe ==
    \/ TicTacToeMakeMove
    \/ TicTacToeReset

SpecTicTacToe == InitTicTacToe /\ [][NextTicTacToe]_vars

\* A fresh GameEngine of the second part of crm_5.
InitGameEngine ==
    /\ AuthIdle
    /\ GameIdle
    /\ MoreIdle

\* Calls of make_move, undo_move and reset_game on that GameEngine.
NextGameEngine ==
    \/ GameEngineMakeMove
    \/ GameEngineUndoMove
    \/ GameEngineResetGame

SpecGameEngine == InitGameEngine /\ [][NextGameEngine]_vars

\* MinimaxAI.get_move called on a board of the caller's making.
InitMoves ==
    /\ AuthIdle
    /\ MoreIdle
    /\ board = EmptyBoard
    /\ current_turn = Player_X
    /\ status = PLAYING
    /\ has_ai = TRUE
    /\ pending = 0
    /\ game_last = [op |-> "none"]
    /\ ai_board \in Boards

NextMoves == GetMove

SpecMoves == InitMoves /\ [][NextMoves]_vars

\* ------------------------------------------------------------- the claims

\* A username is registered with a password when the shared repository holds
\* a record for it whose hash the password verifies against.
Registered(username, password) ==
    /\ username \in DOMAIN users
    /\ checkpw(password, users[username]["password"])

\* C1: once create_user({username: u, password: p}) has succeeded,
\* authenticate_user(u, p) succeeds and returns a record whose username is u.
C1_CreateThenAuthenticate ==
    (/\ last.op = "authenticate_user"
     /\ Registered(last.username, last.password))
    => (/\ last.out.raised = "none"
        /\ last.out.result["username"] = last.username)

\* C2: of two concurrent create_user calls for one username at most one
\* succeeds, and the record a successful call stored is never overwritten.
C2_CreateIsAtomic ==
    /\ \A t1, t2 \in Threads :
        (/\ t1 # t2
         /\ frames[t1].pc = "done" /\ frames[t1].raised = "none"
         /\ frames[t2].pc = "done" /\ frames[t2].raised = "none")
        => frames[t1].user_data["username"] # frames[t2].user_data["username"]
    /\ \A t \in Threads :
        (frames[t].pc = "done" /\ frames[t].raised = "none")
        => users[frames[t].user_data["username"]] = frames[t].result

\* A create_user call whose user_data names a username the store already holds.
CreateOfPresent(user_data) ==
    /\ create_user(user_data)
    /\ "username" \in DOMAIN user_data
    /\ user_data["username"] \in DOMAIN users

\* C3 as stated: create_user with a username already in the store fails with
\* the duplicate-username error whatever the second password is, and leaves
\* the store unchanged.
C3_DuplicateWhateverPassword ==
    [][\A user_data \in UserDataInputs :
        CreateOfPresent(user_data)
        => (/\ last'.raised = "ValueError"
            /\ last'.message = "Username already exists"
            /\ users' = users)]_vars

\* C3 as amended: create_user with a username already in the store fails and
\* leaves the store unchanged; the failure is the duplicate-username error
\* whenever the second password is non-empty, and the required-fields error
\* when it is missing or empty.
C3_DuplicateRejected ==
    [][\A user_data \in UserDataInputs :
        CreateOfPresent(user_data)
        => (/\ last'.raised = "ValueError"
            /\ last'.message =
                 IF Truthy(DictGet(user_data, "password", None))
                 THEN "Username already exists"
                 ELSE "Username and password are required"
            /\ users' = users)]_vars

\* C3's case: a create_user for a stored username was rejected as a duplicate.
C3_Witness ==
    /\ last.op = "create_user"
    /\ last.raised = "ValueError"
    /\ last.message = "Username already exists"
    /\ last.user_data["username"] \in DOMAIN users

\* The HTTP response of a failed login of crm_13.
InvalidCredentials13 ==
    [status_code |-> HTTP_401_UNAUTHORIZED, detail |-> "Invalid credentials"]

\* The HTTP response of a failed login of crm_10.
InvalidCredentials10 ==
    [status_code |-> HTTP_401_UNAUTHORIZED, detail |-> "Invalid credentials",
     headers |-> [WWW_Authenticate |-> "Bearer"]]

\* A store without the record of one username.
Without(store, username) == [x \in DOMAIN store \ {username} |-> store[x]]

\* C4: a login with an unknown username and a login with a registered
\* username and a wrong password fail alike (401, 'Invalid credentials'): on
\* two stores that differ only in whether the username exists, a failed login
\* gets identical responses.
C4_FailedLoginIndistinguishable ==
    /\ (last.op = "login" /\ last.response.status_code # 200)
        => last.response = InvalidCredentials13
    /\ (last.op = "login_for_access_token" /\ last.response.status_code # 200)
        => last.response = InvalidCredentials10
    /\ \A username \in LoginNames10, password \in LoginPasswords10 :
        LET r == login_for_access_token_response(users_db, username, password, now) IN
        r.status_code # 200
        => r = login_for_access_token_response(Without(users_db, username),
                                               username, password, now)
    /\ \A username \in Usernames, password \in Passwords :
        LET r == login_response(users, username, password, now) IN
        r.status_code # 200
        => r = login_response(Without(users, username), username, password, now)

\* C4's case: a login with a registered username and a wrong password failed.
C4_Witness ==
    /\ last.op = "login_for_access_token"
    /\ last.username \in DOMAIN users_db
    /\ last.response.status_code = HTTP_401_UNAUTHORIZED

\* The outcome of jwt.decode as get_current_user calls it.
GateDecode(token, t) == jwt_decode(token, SECRET_KEY_13, {"HS256"}, TRUE, t)

\* C5: get_current_user given a token that decodes (valid signature,
\* unexpired) and whose subject is not in the Credential Store fails, and the
\* failure reaches the client as a 401 like the other token failures.
C5_UnknownSubjectIsUnauthorized ==
    (/\ last.op = "protected_route"
     /\ GateDecode(last.token, last.at).raised = "none"
     /\ Truthy(DictGet(last.token.payload, "sub", None))
     /\ last.token.payload["sub"] \notin DOMAIN get_user_repository)
    => (/\ last.outcome.raised # "none"
        /\ last.response.status_code = HTTP_401_UNAUTHORIZED)

\* The signature of a token verifies under crm_13's key and algorithm.
SignatureValid(token) ==
    /\ token.parsable
    /\ token.header.alg = "HS256"
    /\ token.signature = Sign(token.header, token.payload, SECRET_KEY_13)

\* C6: a token whose signature is valid and for which now >= exp is rejected
\* as expired ('Token expired'); a token whose signature or structure is
\* invalid is rejected as malformed ('Invalid token') whatever its exp claim
\* says, and its claims are never used (the store is not asked for its subject).
C6_SignatureBeforeClaims ==
    last.op = "protected_route"
    => IF SignatureValid(last.token)
       THEN last.token.payload["exp"] * TicksPerSecond <= last.at
            => last.response = [status_code |-> HTTP_401_UNAUTHORIZED,
                                detail |-> "Token expired"]
       ELSE /\ last.response = [status_code |-> HTTP_401_UNAUTHORIZED,
                                detail |-> "Invalid token"]
            /\ last.outcome.looked_up = {}

\* C6's case: a token with an altered claim and an exp in the past was
\* rejected as malformed, not as expired.
C6_Witness ==
    /\ last.op = "protected_route"
    /\ last.token.parsable
    /\ ~SignatureValid(last.token)
    /\ last.token.payload["exp"] * TicksPerSecond <= last.at
    /\ last.response.status_code = HTTP_401_UNAUTHORIZED
    /\ last.response.detail = "Invalid token"

\* The last call decoded the token the client was handed, as issued.
DecodedIssuedToken ==
    /\ last.op = "decode"
    /\ client.by # "nobody"
    /\ last.token = client.token

\* C7: a token issued with a time-to-live of zero is rejected as expired by
\* decode at any time after issuance.
C7_ZeroTtlExpired ==
    (DecodedIssuedToken /\ client.expires_delta = <<0>>)
    => last.out.raised = "ExpiredSignatureError"

\* C8 as stated: decoding an issued token at a time before ttl elapses
\* succeeds and returns the input claims plus exp = issue time + ttl, and
\* issuing leaves the caller's map as it was.
C8_RoundTripExact ==
    (/\ DecodedIssuedToken
     /\ client.expires_delta # <<>>
     /\ last.at < client.at + client.expires_delta[1])
    => (/\ last.out.raised = "none"
        /\ DOMAIN last.out.payload = DOMAIN client.data \cup {"exp"}
        /\ \A k \in DOMAIN client.data : last.out.payload[k] = client.data[k]
        /\ last.out.payload["exp"] * TicksPerSecond = client.at + client.expires_delta[1]
        /\ client.data_after = client.data)

\* issue time + ttl in whole seconds, the fraction dropped.
ExpSeconds == (client.at + client.expires_delta[1]) \div TicksPerSecond

\* C8 as amended: exp is issue time + ttl cut to whole seconds, and decoding
\* an issued token at a time before that exp succeeds and returns the input
\* claims plus that exp; issuing leaves the caller's map as it was.
C8_RoundTripSeconds ==
    /\ (DecodedIssuedToken /\ client.expires_delta # <<>>)
        => (/\ client.data_after = client.data
            /\ last.at < ExpSeconds * TicksPerSecond
                => (/\ last.out.raised = "none"
                    /\ DOMAIN last.out.payload = DOMAIN client.data \cup {"exp"}
                    /\ \A k \in DOMAIN client.data :
                         last.out.payload[k] = client.data[k]
                    /\ last.out.payload["exp"] = ExpSeconds))

\* C8's case: an issued token was decoded before its exp and gave its claims.
C8_Witness ==
    /\ DecodedIssuedToken
    /\ client.expires_delta # <<>>
    /\ last.at > client.at
    /\ last.at < ExpSeconds * TicksPerSecond
    /\ last.out.raised = "none"

\* C9: a login yields a token only when authenticate succeeded for the
\* submitted username and password, and the token's sub is that username;
\* when authentication fails the response is 401 'Invalid credentials' and
\* carries no token.
C9_TokenOnlyAfterAuthenticate ==
    /\ last.op = "login_for_access_token"
        => LET a == authenticate_user_10(users_db, last.username, last.password) IN
           IF a.raised = "none" /\ a.result # <<>>
           THEN /\ last.response.status_code = 200
                /\ last.response.body.access_token.payload["sub"] = last.username
                /\ client.by = "crm_10"
                /\ client.token = last.response.body.access_token
           ELSE /\ last.response.status_code = HTTP_401_UNAUTHORIZED
                /\ last.response.detail = "Invalid credentials"
                /\ "body" \notin DOMAIN last.response
    /\ last.op = "login"
        => LET a == authenticate_user(get_user_repository, last.username, last.password) IN
           IF a.raised = "none"
           THEN /\ last.response.status_code = 200
                /\ last.response.body.token.payload["sub"] = last.username
           ELSE /\ last.response.status_code = HTTP_401_UNAUTHORIZED
                /\ last.response.detail = "Invalid credentials"
                /\ "body" \notin DOMAIN last.response

\* C9's case: a login succeeded and returned a token.
C9_Witness ==
    /\ last.op = "login_for_access_token"
    /\ last.response.status_code = 200
    /\ last.response.body.access_token.payload["sub"] = last.username

MissingOrEmpty(user_data) ==
    \E k \in {"username", "password"} : k \notin DOMAIN user_data \/ user_data[k] = ""

\* C11: create_user with a missing or empty username or password raises the
\* invalid-input error, whose message is not the duplicate-username one, and
\* leaves the store as it was.
C11_InvalidInputRejected ==
    [][\A user_data \in UserDataInputs :
        (create_user(user_data) /\ MissingOrEmpty(user_data))
        => /\ users' = users
           /\ last'.raised = "ValueError"
           /\ last'.message = "Username and password are required"
           /\ last'.message # "Username already exists"]_vars

\* An invalid create_user was rejected on a store that holds a user.
C11_Witness ==
    /\ last.op = "create_user"
    /\ MissingOrEmpty(last.user_data)
    /\ last.raised = "ValueError"
    /\ users # EmptyDict

\* The password each user of crm_10's users_db was registered with.
RegisteredPassword10(username) == IF username = "user1" THEN "password1" ELSE "password2"

\* A hash string as the Password Hasher returns it for `password`: of the
\* bcrypt scheme, salted, verifying against that password, and not the
\* password itself.
HasherOutputFor(password, stored) ==
    /\ stored.scheme = "2b"
    /\ stored.salt \in Salts
    /\ checkpw(password, stored)
    /\ stored # plaintext(password)

\* C12: in every reachable state each stored record's password field is the
\* hasher's output for some password, never a plaintext; the record a
\* successful create_user has just stored holds the hash of the password it
\* was called with, and each record of users_db the hash of its user's password.
C12_StoredPasswordIsHash ==
    /\ \A u \in DOMAIN users :
        \E p \in Passwords : HasherOutputFor(p, users[u]["password"])
    /\ (last.op = "create_user" /\ last.raised = "none")
        => HasherOutputFor(last.user_data["password"],
                           users[last.user_data["username"]]["password"])
    /\ \A u \in DOMAIN users_db :
        HasherOutputFor(RegisteredPassword10(u), users_db[u]["hashed_password"])

\* Two users are stored, the second by the create_user that has just returned.
C12_Witness ==
    /\ last.op = "create_user"
    /\ last.raised = "none"
    /\ Cardinality(DOMAIN users) = 2
    /\ DOMAIN users_db = {"user1", "user2"}

\* C13: authenticate, whether it succeeds or fails, leaves the store as it
\* was and hands the client no token: its outcome is the record stored under
\* the submitted username or nothing; find changes nothing either and returns
\* the record stored under exactly the username asked for, or not-found when
\* the store has no such key.
C13_AuthenticateAndFindArePure ==
    [][/\ (AuthenticateUser10 \/ AuthenticateUser \/ GetUserByUsername10)
            => /\ users' = users
               /\ users_db' = users_db
               /\ client' = client
       /\ GetUserByUsername10
            => /\ last'.username \in DOMAIN users_db
                    => /\ last'.out = <<users_db[last'.username]>>
                       /\ last'.out[1]["username"] = last'.username
               /\ last'.username \notin DOMAIN users_db => last'.out = <<>>
       /\ AuthenticateUser10
            => /\ last'.out.raised = "none"
               /\ \/ last'.out.result = <<>>
                  \/ /\ last'.username \in DOMAIN users_db
                     /\ last'.out.result = <<users_db[last'.username]>>
               /\ DOMAIN last'.out = {"raised", "result"}]_vars

\* authenticate succeeded while the client held a token issued earlier.
C13_Witness ==
    /\ last.op = "authenticate_user_10"
    /\ last.out.result # <<>>
    /\ client.by # "nobody"

\* The user a call names has a stored hash string that is not bcrypt's.
MalformedHash13(username) ==
    username \in DOMAIN users /\ users[username]["password"].scheme # "2b"

MalformedHash10(username) ==
    username \in DOMAIN users_db /\ users_db[username]["hashed_password"].scheme # "2b"

\* C14: when the stored hash string of the user is malformed, verification
\* counts as false: authenticate fails with the invalid-credentials outcome
\* (401 'Invalid credentials' in crm_13, None in crm_10) and login answers
\* 401 'Invalid credentials'; nothing else is raised.
C14_MalformedHashIsInvalidCredentials ==
    /\ (last.op = "authenticate_user" /\ MalformedHash13(last.username))
        => /\ last.out.raised = "HTTPException"
           /\ last.out.status_code = HTTP_401_UNAUTHORIZED
           /\ last.out.detail = "Invalid credentials"
    /\ (last.op = "login" /\ MalformedHash13(last.username))
        => /\ last.response.status_code = HTTP_401_UNAUTHORIZED
           /\ last.response.detail = "Invalid credentials"
    /\ (last.op = "authenticate_user_10" /\ MalformedHash10(last.username))
        => last.out = [raised |-> "none", result |-> <<>>]
    /\ (last.op = "login_for_access_token" /\ MalformedHash10(last.username))
        => /\ last.response.status_code = HTTP_401_UNAUTHORIZED
           /\ last.response.detail = "Invalid credentials"

\* The client holds a token that its issuer's decoder accepts at clock t.
IssuedAndValid(t) ==
    /\ client.by # "nobody"
    /\ jwt_decode(client.token, KeyOf(client.by), {"HS256"}, TRUE, t).raised = "none"

\* C15 as stated: every token that differs from a previously issued valid
\* token is rejected by decode as malformed.
C15_AnyDifferingTokenRejected ==
    (/\ last.op = "decode"
     /\ IssuedAndValid(last.at)
     /\ last.token # client.token)
    => last.out.raised \in InvalidTokenErrors

\* C15: a token made from an issued one by altering its header, its claims or
\* its signature without the key is rejected as malformed by decode and by
\* the gate, which does not use its claims; and whatever token is presented,
\* the claims decode accepts are those of the token as issued, under the
\* issued header and signature.
C15_AlteredTokenRejected ==
    (last.op \in {"decode", "protected_route"} /\ client.by # "nobody")
    => /\ (last.op = "decode" /\ last.token \in Tampered(client.token))
            => last.out.raised \in InvalidTokenErrors
       /\ (last.op = "protected_route" /\ last.token \in Tampered(client.token))
            => /\ last.response = [status_code |-> HTTP_401_UNAUTHORIZED,
                                   detail |-> "Invalid token"]
               /\ last.outcome.looked_up = {}
       /\ (last.op = "decode" /\ last.out.raised = "none")
            => /\ last.out.payload = client.token.payload
               /\ last.token.header = client.token.header
               /\ last.token.signature = client.token.signature

\* A token the decoder accepts was presented with another subject under the
\* issued signature, and rejected for its signature.
C15_Witness ==
    /\ last.op = "decode"
    /\ IssuedAndValid(last.at)
    /\ last.token \in Tampered(client.token)
    /\ last.token.payload["sub"] # client.token.payload["sub"]
    /\ last.out.raised = "InvalidSignatureError"

\* The lines of a board: three rows, three columns, two diagonals.
Lines ==
    { {<<r, c>> : c \in Range3} : r \in Range3 }
    \cup { {<<r, c>> : r \in Range3} : c \in Range3 }
    \cup { {<<0, 0>>, <<1, 1>>, <<2, 2>>}, {<<0, 2>>, <<1, 1>>, <<2, 0>>} }

\* `mark` fills a line of b.
ThreeInLine(b, mark) == \E l \in Lines : \A rc \in l : b[rc[1]][rc[2]] = mark

\* C16: in a game in which X moves first and plays any legal moves and each
\* move of O is the cell MinimaxAI(O, X).get_move returns for the current
\* board, no position is reached in which X has three in a line.
C16_MinimaxNeverLoses == ~ThreeInLine(ai_board, Player_X)

\* A game played to its end: the board is full, X has made five moves, and
\* no line is X's.
C16_Witness ==
    /\ _is_board_full(ai_board)
    /\ Count(ai_board, Player_X) = 5
    /\ ~ThreeInLine(ai_board, Player_X)

\* The last call was a make_move that the engine had to accept: the game was
\* on and the cell was empty.
MadeMoveOnEmptyCell ==
    /\ game_last.op = "make_move"
    /\ game_last.was.status = PLAYING
    /\ game_last.was.board[game_last.row][game_last.col] = Player_EMPTY

\* C17: after a make_move on an empty cell of a game in progress that
\* completes a row, a column or a diagonal with the mover's mark, status is
\* WIN_X when the mover is X and WIN_O when the mover is O; after one that
\* fills the board without completing a line, status is DRAW.
C17_EveryWinDetected ==
    MadeMoveOnEmptyCell
    => /\ (game_last.was.current_turn = Player_X /\ ThreeInLine(board, Player_X))
            => status = WIN_X
       /\ (game_last.was.current_turn = Player_O /\ ThreeInLine(board, Player_O))
            => status = WIN_O
       /\ (/\ _is_board_full(board)
           /\ ~ThreeInLine(board, Player_X)
           /\ ~ThreeInLine(board, Player_O))
            => status = DRAW

\* C18: make_move on an empty cell while status is PLAYING returns True,
\* writes the mark of the player whose turn it was into the cell and, when
\* the game continues, passes the turn to the other player.
C18_ValidMoveAccepted ==
    MadeMoveOnEmptyCell
    => /\ game_last.out.raised = "none"
       /\ game_last.out.returned
       /\ board[game_last.row][game_last.col] = game_last.was.current_turn
       /\ status = PLAYING
            => current_turn = (IF game_last.was.current_turn = Player_X
                               THEN Player_O ELSE Player_X)

\* C19: make_move on an occupied cell, or when status is not PLAYING,
\* returns False, leaves board, current_turn and status as they were and
\* runs no observer.
C19_RejectedMoveChangesNothing ==
    (game_last.op = "make_move" /\ ~MadeMoveOnEmptyCell)
    => /\ game_last.out.raised = "none"
       /\ game_last.out.returned = FALSE
       /\ game_last.out.notified = 0
       /\ Engine = game_last.was

\* A move on an empty cell of a finished game was rejected.
C19_Witness ==
    /\ game_last.op = "make_move"
    /\ game_last.was.status # PLAYING
    /\ game_last.was.board[game_last.row][game_last.col] = Player_EMPTY
    /\ game_last.out.returned = FALSE
    /\ Engine = game_last.was

\* C20: when the engine's status is not PLAYING, _handle_click does not call
\* engine.make_move.
C20_NoMoveAfterGameOver ==
    (game_last.op = "_handle_click" /\ game_last.was.status # PLAYING)
    => game_last.make_move_calls = 0

\* C21: reset leaves the engine in its initial state (nine empty cells, X to
\* move, status PLAYING) whatever the state before, and runs each observer
\* once; a further reset gives the same state again.
C21_ResetYieldsInitialState ==
    game_last.op = "reset"
    => /\ \A r \in Range3, c \in Range3 : board[r][c] = Player_EMPTY
       /\ current_turn = Player_X
       /\ status = PLAYING
       /\ game_last.notified = 1
       /\ [f \in {"board", "current_turn", "status"} |-> reset(Engine)[f]] = Engine

\* A game that X had won, with marks outside row 0 too, was reset.
C21_Witness ==
    /\ game_last.op = "reset"
    /\ game_last.was.status = WIN_X
    /\ Count(game_last.was.board, Player_X) > 3
    /\ board = EmptyBoard

\* The empty cells of b that complete a line of `mark`.
CompletingCells(b, mark) ==
    { rc \in Range3 \X Range3 :
        /\ b[rc[1]][rc[2]] = Player_EMPTY
        /\ \E l \in Lines :
            rc \in l /\ \A other \in l \ {rc} : b[other[1]][other[2]] = mark }

\* get_move returned a cell of the set `cells`.
ReturnedOneOf(cells) ==
    /\ game_last.move # <<>>
    /\ <<game_last.move[1], game_last.move[2]>> \in cells

C23_GetMoveReturnsEmptyCell ==
    game_last.op = "get_move"
    => /\ game_last.move = <<>> <=> _is_board_full(game_last.board)
       /\ game_last.move # <<>>
            => /\ game_last.move[1] \in Range3
               /\ game_last.move[2] \in Range3
               /\ game_last.board[game_last.move[1]][game_last.move[2]] = Player_EMPTY
       /\ ai_board = game_last.board

\* get_move tried five empty cells, returned one of them and left the board
\* as it was.
C23_Witness ==
    /\ game_last.op = "get_move"
    /\ Count(game_last.board, Player_EMPTY) = 5
    /\ game_last.move # <<>>
    /\ ai_board = game_last.board

\* The last call on the controller was a make_move that placed a mark which
\* completed a line for the mover.
WinningMove8 ==
    /\ controller_last.op = "make_move"
    /\ controller_last.returned
    /\ LineThrough(controller.board, controller_last.row, controller_last.col,
                   controller_last.was.current_player)

\* C24: in GameLogicController a move that completes a line for the mover
\* sets status to X_WON or O_WON for that mover, adds exactly 1 to the mover's
\* score, leaves the other score unchanged and does not switch current_player.
C24_WinningMoveScoresForMover ==
    WinningMove8 =>
        LET mover == controller_last.was.current_player
            was == controller_last.was
        IN  /\ controller.status = IF mover = "X" THEN X_WON ELSE O_WON
            /\ controller.scores[IF mover = "X" THEN 1 ELSE 2]
                  = was.scores[IF mover = "X" THEN 1 ELSE 2] + 1
            /\ controller.scores[IF mover = "X" THEN 2 ELSE 1]
                  = was.scores[IF mover = "X" THEN 2 ELSE 1]
            /\ controller.current_player = mover

\* O completes a line in a round played after X won one.
C24_Witness ==
    /\ WinningMove8
    /\ controller_last.was.current_player = "O"
    /\ controller.scores = <<1, 1>>

\* The last call on the controller was a make_move with coordinates outside
\* 0..2, on an occupied cell, or on a game that is not in progress.
InvalidMove8 ==
    /\ controller_last.op = "make_move"
    /\ \/ controller_last.row \notin 0..2
       \/ controller_last.col \notin 0..2
       \/ controller_last.was.board[controller_last.row][controller_last.col] # None
       \/ controller_last.was.status # IN_PROGRESS

\* C25: GameLogicController.make_move with coordinates outside 0..2, on an
\* occupied cell, or when status is not IN_PROGRESS returns False and leaves
\* board, current_player, status and scores unchanged.
C25_InvalidMoveReturnsFalse ==
    InvalidMove8 =>
        /\ controller_last.returned = FALSE
        /\ controller = controller_last.was

\* A move on an empty cell of a game O has won is refused.
C25_Witness ==
    /\ InvalidMove8
    /\ controller_last.row \in 0..2
    /\ controller_last.col \in 0..2
    /\ controller_last.was.board[controller_last.row][controller_last.col] = None
    /\ controller_last.was.status = O_WON
    /\ controller_last.returned = FALSE

\* C26: GameLogicController.reset_game, from any state, clears the board,
\* sets current_player to X and status to IN_PROGRESS, and leaves both scores
\* unchanged.
C26_ResetGameKeepsScores ==
    controller_last.op = "reset_game" =>
        /\ controller.board = NoneBoard
        /\ controller.current_player = "X"
        /\ controller.status = IN_PROGRESS
        /\ controller.scores = controller_last.was.scores

\* reset_game on a game O has won, with a score on the board.
C26_Witness ==
    /\ controller_last.op = "reset_game"
    /\ controller_last.was.status = O_WON
    /\ controller_last.was.current_player = "O"
    /\ controller_last.was.scores = <<0, 1>>
    /\ controller.scores = <<0, 1>>

\* Some line of board b holds three equal marks.
SomeLineComplete8(b) ==
    \E l \in DOMAIN check_winner_lines, mark \in {"X", "O"} :
        \A k \in 1..3 :
            b[check_winner_lines[l][k][1]][check_winner_lines[l][k][2]] = mark

\* Every cell of board b holds a mark.
NoCellLeft8(b) == \A r \in Range3, c \in Range3 : b[r][c] \in {"X", "O"}

\* C27: in every GameLogicController state reachable through make_move and
\* reset_game, status is DRAW exactly when the board is full and no line is
\* complete; the move that reaches DRAW changes no score; and a ninth move
\* that completes a line gives a win, not a draw.
C27_DrawIffFullWithoutLine ==
    /\ controller.status = DRAW_8
          <=> (NoCellLeft8(controller.board) /\ ~SomeLineComplete8(controller.board))
    /\ (controller_last.op = "make_move" /\ controller.status = DRAW_8)
          => controller.scores = controller_last.was.scores
    /\ (NoCellLeft8(controller.board) /\ SomeLineComplete8(controller.board))
          => controller.status \in {X_WON, O_WON}

\* The ninth move of a round ends it in a draw, after a round that X won.
C27_Witness ==
    /\ controller_last.op = "make_move"
    /\ controller_last.returned
    /\ controller_last.was.status = IN_PROGRESS
    /\ controller.status = DRAW_8
    /\ NoCellLeft8(controller.board)
    /\ controller.scores = <<1, 0>>

\* C28: a TicTacToe.make_move call that places no mark leaves board,
\* current_player, status, winner and move_history unchanged: on a game that
\* has ended it raises ValueError, on a game in progress it raises IndexError
\* for coordinates out of bounds and returns False for an occupied cell.
C28_RefusedMoveChangesNothing ==
    tictactoe_last.op = "make_move" =>
        LET was == tictactoe_last.was
            row == tictactoe_last.row
            col == tictactoe_last.col
            inside == row \in 0..2 /\ col \in 0..2
        IN  /\ was.status # PLAYING_5 =>
                  /\ tictactoe_last.raised = "ValueError"
                  /\ tictactoe = was
            /\ (was.status = PLAYING_5 /\ ~inside) =>
                  /\ tictactoe_last.raised = "IndexError"
                  /\ tictactoe = was
            /\ (was.status = PLAYING_5 /\ inside /\ was.board[row][col] # None) =>
                  /\ tictactoe_last.raised = None
                  /\ tictactoe_last.returned = <<FALSE>>
                  /\ tictactoe = was
            /\ tictactoe.board = was.board => tictactoe = was

\* A move on an occupied cell of a game in progress returned False, four
\* moves into the game.
C28_Witness ==
    /\ tictactoe_last.op = "make_move"
    /\ tictactoe_last.was.status = PLAYING_5
    /\ Len(tictactoe_last.was.move_history) = 4
    /\ tictactoe_last.row \in 0..2
    /\ tictactoe_last.col \in 0..2
    /\ tictactoe_last.was.board[tictactoe_last.row][tictactoe_last.col]
          = PlayerSymbol_O
    /\ tictactoe_last.returned = <<FALSE>>
    /\ tictactoe.current_player = player1

\* The last call on the TicTacToe was a make_move on a game in progress whose
\* mark completed its row for the mover.
CompletedRow5 ==
    /\ tictactoe_last.op = "make_move"
    /\ tictactoe_last.was.status = PLAYING_5
    /\ tictactoe_last.row \in 0..2
    /\ tictactoe_last.col \in 0..2
    /\ tictactoe_last.was.board[tictactoe_last.row][tictactoe_last.col] = None
    /\ \A c \in Range3 :
          tictactoe.board[tictactoe_last.row][c]
              = tictactoe_last.was.current_player.symbol

CallOnFinishedGame ==
    /\ game_engine_last.op \in {"make_move", "undo_move"}
    /\ game_engine_last.was.game_over

\* C30: once a GameEngine game is over, by a win or a draw, every further
\* make_move is rejected (success is false) and undo_move returns False, and
\* board, winner, game_over and move_history stay unchanged.
C30_FinishedGameIsFrozen ==
    CallOnFinishedGame =>
        /\ game_engine_last.op = "make_move" => game_engine_last.success = FALSE
        /\ game_engine_last.op = "undo_move" => game_engine_last.returned = FALSE
        /\ game_engine.board = game_engine_last.was.board
        /\ game_engine.winner = game_engine_last.was.winner
        /\ game_engine.game_over = game_engine_last.was.game_over
        /\ game_engine.move_history = game_engine_last.was.move_history

\* undo_move is refused on a game that ended in a draw.
C30_Witness ==
    /\ CallOnFinishedGame
    /\ game_engine_last.op = "undo_move"
    /\ game_engine_last.returned = FALSE
    /\ game_engine.winner = None
    /\ Len(game_engine.move_history) = 9

\* The token verifies under the key of crm_13 and has not expired at clock t.
VerifiesAt(token, t) ==
    /\ token.parsable
    /\ token.header.alg = "HS256"
    /\ token.signature = Sign(token.header, token.payload, SECRET_KEY_13)
    /\ "exp" \in DOMAIN token.payload
    /\ token.payload["exp"] * TicksPerSecond > t

\* The four terminal states of a request.
RejectedMalformed(r) == r.pc = "Rejected" /\ r.detail = "Invalid token"

RejectedExpired(r) == r.pc = "Rejected" /\ r.detail = "Token expired"

RejectedUnknownSubject(r) == r.pc = "Rejected" /\ r.detail = "User not found"

Authorized(r) == r.pc = "Authorized"

\* One step of a request, from position `r` to position `q`, follows the
\* state machine, consults the repository only after the token decoded, and
\* authorizes only a token that decoded and whose subject was found.
AuthorizeStep(r, q) ==
    /\ \/ (r.pc = "idle" \/ Terminal(r)) /\ q.pc = "Received" /\ q.looked_up = <<>>
       \/ r.pc = "Received" /\ q.pc = "Decoding"
       \/ r.pc = "Decoding"
             /\ (RejectedMalformed(q) \/ RejectedExpired(q) \/ q.pc = "Decoded")
       \/ r.pc = "Decoded" /\ q.pc = "ResolvingIdentity"
       \/ r.pc = "ResolvingIdentity"
             /\ (RejectedUnknownSubject(q) \/ Authorized(q))
    /\ q.looked_up # <<>> =>
          /\ r.pc = "ResolvingIdentity"
          /\ Len(q.looked_up) = 1
          /\ VerifiesAt(q.token, q.decoded_at[1])
    /\ Authorized(q) =>
          /\ VerifiesAt(q.token, q.decoded_at[1])
          /\ q.token.payload["sub"] \in DOMAIN get_user_repository
          /\ q.looked_up = <<q.token.payload["sub"]>>
    /\ Terminal(q) =>
          Cardinality({ k \in 1..4 :
              \/ k = 1 /\ RejectedMalformed(q)
              \/ k = 2 /\ RejectedExpired(q)
              \/ k = 3 /\ RejectedUnknownSubject(q)
              \/ k = 4 /\ Authorized(q) }) = 1

\* C31: each get_current_user request goes Received, Decoding, then
\* Rejected(Malformed), Rejected(Expired) or Decoded, ResolvingIdentity, then
\* Rejected(UnknownSubject) or Authorized; it ends in exactly one of these
\* four terminal states, the repository is consulted only after decoding
\* succeeded and once only, Authorized is reached only when the token decoded
\* and its subject was found, and a request that was received ends.
C31_AuthorizeStateMachine ==
    /\ [][request' # request => AuthorizeStep(request, request')]_vars
    /\ (request.pc = "Received") ~> Terminal(request)

\* A request is authorized: the injected repository holds the token's subject.
C31_Witness ==
    /\ Authorized(request)
    /\ request.looked_up = <<"alice">>
    /\ injected

\* The number of cells of the GameEngine's board that hold `mark`.
Marks5(mark) ==
    Cardinality({ rc \in Range3 \X Range3 : game_engine.board[rc[1]][rc[2]] = mark })

\* C32: in every reachable state of the GameEngine of crm_5 the marks on the
\* board are exactly the entries of move_history, the number of X marks minus
\* the number of O marks is 0 or 1, and while the game is not over the current
\* player is X exactly when the two counts are equal.
C32_BoardMatchesHistory ==
    /\ \A r \in Range3, c \in Range3 :
          \A mark \in {"X", "O"} :
              game_engine.board[r][c] = mark
                  <=> \E i \in DOMAIN game_engine.move_history :
                         game_engine.move_history[i]
                             = [row |-> r, col |-> c, symbol |-> mark]
    /\ Len(game_engine.move_history) = Marks5("X") + Marks5("O")
    /\ Marks5("X") - Marks5("O") \in {0, 1}
    /\ ~game_engine.game_over =>
          (game_engine.current_player_index = 0 <=> Marks5("X") = Marks5("O"))

\* Four moves stand on the board after a fifth was undone.
C32_Witness ==
    /\ game_engine_last.op = "undo_move"
    /\ game_engine_last.returned
    /\ Len(game_engine.move_history) = 4
    /\ Marks5("X") = 2
    /\ Marks5("O") = 2
    /\ game_engine.current_player_index = 0

\* C37: in the GameEngine of crm_5 an accepted make_move that does not end
\* the game, followed immediately by undo_move, restores the engine exactly
\* (board, current player, move_history, winner, game_over); undo_move returns
\* False and changes nothing when move_history is empty.
C37_UndoRestoresPreviousState ==
    game_engine_last.op = "undo_move" =>
        /\ (game_engine_last.prior # <<>> /\ ~game_engine_last.was.game_over) =>
              /\ game_engine_last.returned = TRUE
              /\ game_engine = game_engine_last.prior[1]
        /\ game_engine_last.was.move_history = <<>> =>
              /\ game_engine_last.returned = FALSE
              /\ game_engine = game_engine_last.was

\* The sixth move of a game, by O, is undone.
C37_Witness ==
    /\ game_engine_last.op = "undo_move"
    /\ game_engine_last.prior # <<>>
    /\ game_engine_last.returned = TRUE
    /\ Len(game_engine_last.was.move_history) = 6
    /\ Len(game_engine.move_history) = 5
    /\ game_engine.current_player_index = 1

C38_ScoresCountCompletedLines ==
    LET total == controller.scores[1] + controller.scores[2] IN
    /\ controller_last.op \in {"make_move", "reset_game"} =>
          /\ controller.scores[1] >= controller_last.was.scores[1]
          /\ controller.scores[2] >= controller_last.was.scores[2]
    /\ total - controller_rounds.total_at_reset \in {0, 1}
    /\ total = controller_rounds.completed

\* The second round is won too: two moves have completed a line.
C38_Witness ==
    /\ controller_last.op = "make_move"
    /\ controller_rounds.completed = 2
    /\ controller_rounds.total_at_reset = 1
    /\ controller.scores = <<1, 1>>

\* C33: every call of GameEngine.make_move either completes (it returns True
\* with the mark placed, the status updated, the turn passed when the game
\* continues and the observers notified) or leaves board, current_turn and
\* status as they were; no call, one that raises included, leaves a mark on
\* the board without the status and turn update.
C33_MakeMoveAllOrNothing ==
    game_last.op = "make_move"
    => \/ /\ game_last.out.raised = "none"
          /\ game_last.out.returned
          /\ board = Place(game_last.was.board, game_last.row, game_last.col,
                           game_last.was.current_turn)
          /\ status = (IF ThreeInLine(board, Player_X) THEN WIN_X
                       ELSE IF ThreeInLine(board, Player_O) THEN WIN_O
                       ELSE IF _is_board_full(board) THEN DRAW
                       ELSE PLAYING)
          /\ current_turn = (IF status # PLAYING THEN game_last.was.current_turn
                             ELSE IF game_last.was.current_turn = Player_X
                             THEN Player_O ELSE Player_X)
          /\ game_last.out.notified = 1
       \/ Engine = game_last.was

RECURSIVE PlainMinimax(_, _, _, _)
RECURSIVE PlainMinimaxOver(_, _, _, _, _, _)

\* The best of best_score and the values of the empty cells of b from cell k
\* on: the greatest when is_maximizing, the least otherwise.  No cell is
\* skipped.
PlainMinimaxOver(self, b, depth, is_maximizing, best_score, k) ==
    IF k > 8 THEN best_score
    ELSE IF b[k \div 3][k % 3] # Player_EMPTY
    THEN PlainMinimaxOver(self, b, depth, is_maximizing, best_score, k + 1)
    ELSE LET score == PlainMinimax(self,
                         Place(b, k \div 3, k % 3,
                               IF is_maximizing THEN self.ai_player ELSE self.opponent),
                         depth + 1, ~is_maximizing)
         IN  PlainMinimaxOver(self, b, depth, is_maximizing,
                              IF is_maximizing THEN Max(score, best_score)
                              ELSE Min(score, best_score),
                              k + 1)

\* Minimax without pruning, with the scores 10 - depth, depth - 10 and 0: the
\* value of board b at `depth` for the AI `self`, the maximizing side to move
\* when is_maximizing.
PlainMinimax(self, b, depth, is_maximizing) ==
    LET res == _check_winner(b) IN
    IF res = self.ai_player THEN 10 - depth
    ELSE IF res = self.opponent THEN depth - 10
    ELSE IF _is_board_full(b) THEN 0
    ELSE PlainMinimaxOver(self, b, depth, is_maximizing,
                          IF is_maximizing THEN -Inf ELSE Inf, 0)

\* The first cell in row-major order whose exact minimax value is maximal.
PlainBestCell(self, b) ==
    LET scored == { <<rc, PlainMinimax(self, Place(b, rc[1], rc[2], self.ai_player),
                                       0, FALSE)>> :
                    rc \in { e \in Range3 \X Range3 : b[e[1]][e[2]] = Player_EMPTY } }
        best == CHOOSE p \in scored :
                    \A q \in scored :
                        \/ p[2] > q[2]
                        \/ /\ p[2] = q[2]
                           /\ 3 * p[1][1] + p[1][2] <= 3 * q[1][1] + q[1][2]
    IN  best[1]

\* C35: on every board with at least one empty cell MinimaxAI.get_move, the
\* alpha-beta search whose cut-off leaves the loop over the columns only,
\* returns the cell plain minimax without pruning returns with the same
\* scores: the first cell in row-major order whose exact value is maximal.
C35_AlphaBetaEqualsPlainMinimax ==
    (/\ game_last.op = "get_move"
     /\ ~_is_board_full(game_last.board))
    => game_last.move = PlainBestCell(AI_O, game_last.board)

\* get_move ran on a board without a line and with the most empty cells, and
\* returned a cell in the last row although cells of the first row are empty.
C35_Witness ==
    /\ game_last.op = "get_move"
    /\ Count(game_last.board, Player_EMPTY) = MaxEmpty
    /\ _check_winner(game_last.board) = None
    /\ game_last.move = <<2, 1>>
    /\ game_last.board[0][0] = Player_EMPTY
    /\ game_last.board[0][1] = Player_EMPTY
====
